---- MODULE Spec2Model ----
(***************************************************************************)
(* Model of the optimized execution subsystem of the SuperClaude Cursor    *)
(* bridge: OptimizedCommandBridge.executeCommand / cancelCommand           *)
(* (src/optimized-command-bridge.js) composed with ResultCache,            *)
(* ProgressManager and PerformanceMonitor.                                 *)
(*                                                                         *)
(* Conventions                                                             *)
(*  - One step of the model is one synchronous run-to-completion turn of   *)
(*    the JavaScript event loop: the synchronous prefix of executeCommand, *)
(*    a timer callback (together with the promise continuation it          *)
(*    releases), a cancelCommand call, an abort of an external signal, or  *)
(*    the continuation of executeCommand after its awaited promise was     *)
(*    rejected from synchronous caller code.                               *)
(*  - Time is Date.now() counted in units of 5 minutes.                    *)
(*  - A string argument is a record [core, ws, up]: its text without       *)
(*    surrounding whitespace in lower case, whether it carries surrounding *)
(*    whitespace, and whether it carries upper-case letters.               *)
(*  - The sha256 digest of _generateKey is taken to be collision free: a   *)
(*    key is the digested text <<commandName, normalizedArgs>>.            *)
(*  - The body of the promise in _executeOptimizedCommand stands in for    *)
(*    the spawn of the SuperClaude CLI (source comment at line 233); the   *)
(*    tests replace it by resolved and rejected values.  Its final timer   *)
(*    therefore delivers one of PrimitiveOutcomes, an input of the model;  *)
(*    "ok" is the outcome of the code as written.                          *)
(*  - The orchestrator re-emits the tracker's events unchanged             *)
(*    (constructor, lines 22-32); the model records the tracker's events.  *)
(***************************************************************************)
EXTENDS Integers, Sequences, FiniteSets, TLC

\* ------------------------------------------------------------------ bounds
MaxInv == 2            \* number of executeCommand invocations
MaxTime == 2           \* last value of the clock

\* --------------------------------------------------------------- constants
TTL_analyze == 1       \* commandTTLs.analyze, 5 minutes
TTL_research == 2      \* commandTTLs.research, 10 minutes
SizeCeiling == 2       \* 1024 * 1024 bytes, counted in units of 512 KiB
DefaultTTL == 1        \* defaultTTL, 5 minutes
CacheMaxSize == 2      \* options.maxSize of the cache under test
ProgressStepsLen == 6  \* progressSteps.length
BootstrapMs == 100     \* delay of bootstrapTimer, and the margin of finalizeTimer
IntervalMs == 500      \* period of progressInterval
EstimatedMs == 2000    \* _getEstimatedExecutionTime of '/sc:analyze' and default

\* ------------------------------------------------------------------ inputs
Str(core, ws, up) == [core |-> core, ws |-> ws, up |-> up]

\* [], ['t'], ['u']
ArgLists == { <<>>, <<Str("t", FALSE, FALSE)>>, <<Str("u", FALSE, FALSE)>> }

\* a mapped, cacheable command with a required parameter; an unmapped name
Commands == { "analyze", "bogus" }

\* options.signal: absent, present, present and already aborted
SignalModes == { "none", "live", "aborted" }

PrimitiveOutcomes == { "ok", "fail", "error" }

Ids == 1..MaxInv

\* ------------------------------------------------------- CommandBridge (base)
Mapped(commandName) == commandName \in { "analyze", "help" }

HasRequiredParams(commandName) == commandName = "analyze"

\* validateParameters: "ok" or the class of the error it throws
validateParameters(commandName, args) ==
  IF ~Mapped(commandName) THEN "validation"
  ELSE IF HasRequiredParams(commandName) /\ Len(args) = 0 THEN "validation"
  ELSE IF \E k \in DOMAIN args :
            args[k].core = "--invalid" /\ ~args[k].ws THEN "validation"
  ELSE "ok"

\* normalizeParameters: trims string arguments
normalizeParameters(args) ==
  [k \in DOMAIN args |-> Str(args[k].core, FALSE, args[k].up)]

\* --------------------------------------------------------------- ResultCache
\* An object argument is the record [keys, inner]: the order in which its own
\* keys 1 and 2 were inserted, and the order in which the keys of the object
\* that is the value of key 1 were inserted; the values are the same in all.
Obj(keys, inner) == [keys |-> keys, inner |-> inner]

IsObject(arg) == "keys" \in DOMAIN arg

RECURSIVE SortKeys(_)
\* Object.keys(arg).sort()
SortKeys(keys) ==
  IF keys = <<>> THEN <<>>
  ELSE LET m == CHOOSE k \in DOMAIN keys : \A j \in DOMAIN keys : keys[k] <= keys[j]
       IN << keys[m] >>
            \o SortKeys([j \in 1..(Len(keys) - 1) |->
                           IF j < m THEN keys[j] ELSE keys[j + 1]])

\* _normalizeArgs: trim().toLowerCase() on strings; the own keys of an object
\* are copied in sorted order, its values are copied as they are
NormalizeArgs(args) ==
  [k \in DOMAIN args |->
     IF IsObject(args[k]) THEN Obj(SortKeys(args[k].keys), args[k].inner)
     ELSE Str(args[k].core, FALSE, FALSE)]

\* _generateKey
GenerateKey(commandName, args) == <<commandName, NormalizeArgs(args)>>

\* this.commandTTLs[commandName] || this.defaultTTL
CommandTTL(commandName) ==
  IF commandName = "analyze" THEN TTL_analyze
  ELSE IF commandName = "research" THEN TTL_research
  ELSE DefaultTTL

\* _estimateSize: twice the length of the JSON text; a result carries the
\* length of its text in len, in units of 512 Ki characters, and the results
\* of the orchestrator's mock are far below one unit
EstimateSize(result) ==
  IF "len" \in DOMAIN result THEN 2 * result.len ELSE 0

\* _shouldCache without the test of the estimated size
ShouldCache_NoSizeCheck(commandName, result) ==
  /\ result.success
  /\ commandName \in { "research", "analyze", "review", "explain" }

\* _shouldCache
ShouldCache(commandName, result) ==
  /\ result.success
  /\ EstimateSize(result) <= SizeCeiling
  /\ commandName \in { "research", "analyze", "review", "explain" }

\* position of key in the insertion-ordered map, 0 when absent
CacheIndex(c, key) ==
  IF \E k \in DOMAIN c : c[k].key = key
  THEN CHOOSE k \in DOMAIN c : c[k].key = key
  ELSE 0

CacheHas(c, key) == CacheIndex(c, key) # 0

RECURSIVE SeqFilterOut(_, _)
\* the entries of c whose keys are not in drop, in order (Map.delete)
SeqFilterOut(c, drop) ==
  IF c = <<>> THEN <<>>
  ELSE IF Head(c).key \in drop THEN SeqFilterOut(Tail(c), drop)
  ELSE <<Head(c)>> \o SeqFilterOut(Tail(c), drop)

\* the score of _evictOldEntries with its sign reversed
Score_Reversed(e) == 0 - (7 * e.hitCount + 900 * e.lastAccessed)

\* blended score of _evictOldEntries, times 10: 0.7*hitCount + 0.3*(lastAccessed/1000)
\* with lastAccessed = 300000 ms per unit of time
Score(e) == 7 * e.hitCount + 900 * e.lastAccessed

RECURSIVE LowestFirst(_)
\* stable ascending sort by Score (Array.prototype.sort is stable)
LowestFirst(s) ==
  IF s = <<>> THEN <<>>
  ELSE LET m == CHOOSE k \in DOMAIN s :
                  /\ \A j \in DOMAIN s : Score(s[k]) <= Score(s[j])
                  /\ \A j \in 1..(k - 1) : Score(s[j]) > Score(s[k])
           rest == [j \in 1..(Len(s) - 1) |-> IF j < m THEN s[j] ELSE s[j + 1]]
       IN <<s[m]>> \o LowestFirst(rest)

\* Math.floor in the place of Math.ceil
CeilFifth_Floor(n) == n \div 5

\* Math.ceil(n * 0.2)
CeilFifth(n) == (n + 4) \div 5

\* _evictOldEntries
EvictOldEntries(c, t) ==
  LET expired == { c[k].key : k \in { j \in DOMAIN c : c[j].expiresAt < t } }
      c1 == SeqFilterOut(c, expired)
  IN IF Len(c1) >= CacheMaxSize
     THEN LET sorted == LowestFirst(c1)
              n == IF CeilFifth(CacheMaxSize) < Len(sorted)
                   THEN CeilFifth(CacheMaxSize) ELSE Len(sorted)
          IN SeqFilterOut(c1, { sorted[k].key : k \in 1..n })
     ELSE c1

\* the object get returns on a hit: { ...entry.result, _cacheInfo: {...} }
CacheValue(e) ==
  [result |-> e.result,
   cacheInfo |-> [cached |-> TRUE, hitCount |-> e.hitCount,
                  cachedAt |-> e.cachedAt, lastAccessed |-> e.lastAccessed]]

\* ResultCache.get with lastAccessed left as it was
CacheGet_NoRefresh(c, t, commandName, args) ==
  LET key == GenerateKey(commandName, args)
      k == CacheIndex(c, key)
      c1 == [c EXCEPT ![k].hitCount = @ + 1]
  IN IF k = 0 THEN [cache |-> c, hit |-> FALSE, hitCount |-> 0, value |-> <<>>]
     ELSE IF t > c[k].expiresAt
     THEN [cache |-> SeqFilterOut(c, {key}), hit |-> FALSE, hitCount |-> 0,
           value |-> <<>>]
     ELSE [cache |-> c1, hit |-> TRUE, hitCount |-> c[k].hitCount + 1,
           value |-> << CacheValue(c1[k]) >>]

\* ResultCache.get: the cache afterwards, whether it was a hit, and the value
\* returned as a one-element sequence, empty for null
CacheGet(c, t, commandName, args) ==
  LET key == GenerateKey(commandName, args)
      k == CacheIndex(c, key)
      c1 == [c EXCEPT ![k].hitCount = @ + 1, ![k].lastAccessed = t]
  IN IF k = 0 THEN [cache |-> c, hit |-> FALSE, hitCount |-> 0, value |-> <<>>]
     ELSE IF t > c[k].expiresAt
     THEN [cache |-> SeqFilterOut(c, {key}), hit |-> FALSE, hitCount |-> 0,
           value |-> <<>>]
     ELSE [cache |-> c1, hit |-> TRUE, hitCount |-> c[k].hitCount + 1,
           value |-> << CacheValue(c1[k]) >>]

\* the customTTL parameter left at its default null
NoTTL == <<>>

\* customTTL || this.commandTTLs[commandName] || this.defaultTTL, where
\* customTTL is NoTTL or the one-element sequence of the number passed:
\* null and 0 are both falsy
EffectiveTTL(commandName, customTTL) ==
  IF customTTL # NoTTL /\ customTTL[1] # 0 THEN customTTL[1]
  ELSE CommandTTL(commandName)

\* ResultCache.set past the _shouldCache test (lines 115-137): evicts when
\* the map is full, then stores a fresh entry under the key
CacheStoreTTL(c, t, commandName, args, result, customTTL) ==
  LET key == GenerateKey(commandName, args)
      entry == [key |-> key, commandName |-> commandName,
                result |-> result, cachedAt |-> t,
                expiresAt |-> t + EffectiveTTL(commandName, customTTL),
                lastAccessed |-> t, hitCount |-> 0]
      c1 == IF Len(c) >= CacheMaxSize THEN EvictOldEntries(c, t) ELSE c
      k == CacheIndex(c1, key)
  IN IF k = 0 THEN Append(c1, entry) ELSE [c1 EXCEPT ![k] = entry]

\* ResultCache.set(commandName, args, result, customTTL)
CacheSetTTL(c, t, commandName, args, result, customTTL) ==
  IF ~ShouldCache(commandName, result) THEN c
  ELSE CacheStoreTTL(c, t, commandName, args, result, customTTL)

\* set past the _shouldCache test, without a customTTL
CacheStore(c, t, commandName, args, result) ==
  CacheStoreTTL(c, t, commandName, args, result, NoTTL)

\* ResultCache.set(commandName, args, result)
CacheSet(c, t, commandName, args, result) ==
  CacheSetTTL(c, t, commandName, args, result, NoTTL)

\* _cleanup: the entries that have not expired
CacheCleanup(c, t) ==
  SeqFilterOut(c, { c[k].key : k \in { j \in DOMAIN c : c[j].expiresAt < t } })

\* invalidate(commandName, args)
CacheInvalidateKey(c, commandName, args) ==
  SeqFilterOut(c, { GenerateKey(commandName, args) })

\* invalidate(commandName)
CacheInvalidateCommand(c, commandName) ==
  SeqFilterOut(c, { c[k].key : k \in { j \in DOMAIN c :
                                         c[j].commandName = commandName } })

\* ------------------------------------------------------------------- state
VARIABLES
  now,                 \* Date.now()
  cache,               \* ResultCache.cache, in insertion order
  inv,                 \* the activations of executeCommand, by invocation id
  activeCommands,      \* keys of ProgressManager.activeCommands
  ctx,                 \* the progress context objects, by invocation id
  performanceHistory,  \* PerformanceMonitor.performanceHistory, newest first
  executionHistory,    \* length of CommandBridge.executionHistory
  events               \* per id: number of events of each type emitted so far

\* The frame parser, and the values the direct callers of the cache and of
\* the key function hold; none of them is touched by the orchestrator.
VARIABLES
  handler,             \* the JSONProtocolHandler: limits, _incompleteLine,
                       \* _bufferBytes, _decoder
  reply,               \* what the last parseBuffer call returned or threw
  stream,              \* the bytes a sender has produced, and how it cuts them
  lastOp,              \* the last direct call on the ResultCache and its value
  keyCase              \* two (commandName, args) pairs and their keys

\* The ProgressManager and the PerformanceMonitor when they are driven
\* directly, on their own.
VARIABLES
  tracker,             \* a ProgressManager: its map, its timers, its events
  monitor              \* a PerformanceMonitor: its history and its warnings

vars == << now, cache, inv, activeCommands, ctx, performanceHistory,
           executionHistory, events, handler, reply, stream, lastOp, keyCase,
           tracker, monitor >>

\* an object that is not in use
Unused == "unused"

bridgeVars == << inv, activeCommands, ctx, performanceHistory,
                 executionHistory, events >>
parserVars == << handler, reply, stream >>
cacheUserVars == << lastOp, keyCase >>
directVars == << tracker, monitor >>

NoArgs == <<>>

IdleInv ==
  [ pc |-> "idle", commandName |-> "", args |-> NoArgs, skipCache |-> FALSE,
    signal |-> "none", preAborted |-> FALSE, calledAfter |-> {},
    listener |-> FALSE,
    timer |-> "none", interval |-> FALSE, idx |-> 0,
    promise |-> "none",
    dispatched |-> 0, started |-> 0, ended |-> 0, finished |-> 0,
    prim |-> "none", tryResult |-> "none",
    outcome |-> "none", error |-> "none", cached |-> FALSE, success |-> FALSE ]

NoCtx ==
  [ commandName |-> "", currentStep |-> 0, totalSteps |-> 1,
    status |-> "none", cancelled |-> FALSE, aborted |-> FALSE,
    intervalId |-> FALSE ]

NoEvents == [ progress |-> 0, failed |-> 0, complete |-> 0, cancelled |-> 0 ]

Init ==
  /\ now = 0
  /\ cache = <<>>
  /\ inv = [i \in Ids |-> IdleInv]
  /\ activeCommands = {}
  /\ ctx = [i \in Ids |-> NoCtx]
  /\ performanceHistory = <<>>
  /\ executionHistory = 0
  /\ events = [i \in Ids |-> NoEvents]
  /\ handler = Unused /\ reply = Unused /\ stream = Unused
  /\ lastOp = Unused /\ keyCase = Unused
  /\ tracker = Unused /\ monitor = Unused

\* The mutable objects a handler works on, threaded through its calls.
World ==
  [ cache |-> cache, inv |-> inv, active |-> activeCommands, ctx |-> ctx,
    hist |-> performanceHistory, exec |-> executionHistory, ev |-> events ]

Commit(w) ==
  /\ cache' = w.cache
  /\ inv' = w.inv
  /\ activeCommands' = w.active
  /\ ctx' = w.ctx
  /\ performanceHistory' = w.hist
  /\ executionHistory' = w.exec
  /\ events' = w.ev
  /\ UNCHANGED << parserVars, cacheUserVars,
                  directVars >>

\* ----------------------------------------------------------- ProgressManager
Min(a, b) == IF a < b THEN a ELSE b

\* _estimateSteps of the orchestrator
EstimateSteps(commandName) ==
  IF commandName = "analyze" THEN 80 ELSE 100

\* startProgress: a fresh context with its own AbortController, the heartbeat
\* interval, and the first 'progress' event
StartProgress(w, id, commandName, totalSteps) ==
  [ w EXCEPT
      !.ctx[id] = [ commandName |-> commandName,
                    currentStep |-> 0,
                    totalSteps |-> IF totalSteps < 1 THEN 1 ELSE totalSteps,
                    status |-> "initializing", cancelled |-> FALSE,
                    aborted |-> FALSE, intervalId |-> TRUE ],
      !.active = @ \cup {id},
      !.ev[id].progress = @ + 1 ]

\* updateProgress(commandId, {step, status}); status "" leaves the status alone
UpdateProgress(w, id, step, status) ==
  IF id \notin w.active \/ w.ctx[id].cancelled THEN w
  ELSE [ w EXCEPT
           !.ctx[id].currentStep = Min(step, w.ctx[id].totalSteps),
           !.ctx[id].status = IF status = "" THEN @ ELSE status,
           !.ev[id].progress = @ + 1 ]

\* completeProgress(commandId, result), success being result.success !== false
CompleteProgress(w, id, success) ==
  IF id \notin w.active THEN w
  ELSE [ w EXCEPT
           !.ctx[id].currentStep = w.ctx[id].totalSteps,
           !.ctx[id].status = IF success THEN "completed" ELSE "failed",
           !.ctx[id].intervalId = FALSE,
           !.active = @ \ {id},
           !.ev[id].progress = @ + 1,
           !.ev[id].failed = IF success THEN @ ELSE @ + 1,
           !.ev[id].complete = @ + 1 ]

\* the 'abort' listener _executeOptimizedCommand puts on the tracker's signal:
\* clears the timers and rejects the promise (a settled promise stays as it is)
AbortHandler(w, id) ==
  IF w.inv[id].promise = "none" THEN w
  ELSE [ w EXCEPT
           !.inv[id].timer = "none",
           !.inv[id].interval = FALSE,
           !.inv[id].idx = 0,
           !.inv[id].promise = IF @ = "pending" THEN "rejected" ELSE @,
           !.inv[id].prim = IF w.inv[id].promise = "pending" THEN "aborted" ELSE @,
           !.inv[id].pc = IF w.inv[id].promise = "pending" THEN "settled" ELSE @ ]

\* a faulty variant of AbortController: one controller shared by all live
\* contexts. C10 does not hold of it.
AbortController_Shared(w, id) ==
  IF w.ctx[id].aborted THEN w
  ELSE AbortHandler(
         [ w EXCEPT !.ctx = [ j \in Ids |->
                               IF j = id \/ j \in w.active
                               THEN [ w.ctx[j] EXCEPT !.aborted = TRUE ]
                               ELSE w.ctx[j] ] ], id)

\* abortController.abort() of a context: fires the signal's listeners once
AbortController(w, id) ==
  IF w.ctx[id].aborted THEN w
  ELSE AbortHandler([ w EXCEPT !.ctx[id].aborted = TRUE ], id)

\* the value cancelCommand(commandId) returns
CancelReturns(w, id) == id \in w.active /\ ~w.ctx[id].cancelled

\* cancelCommand(commandId)
CancelCommandT(w, id) ==
  IF ~CancelReturns(w, id) THEN w
  ELSE LET w1 == AbortController(
                   [ w EXCEPT !.ctx[id].cancelled = TRUE,
                              !.ctx[id].status = "cancelled" ], id)
       IN [ w1 EXCEPT
              !.ctx[id].intervalId = FALSE,
              !.active = @ \ {id},
              !.ev[id].progress = @ + 1,
              !.ev[id].cancelled = @ + 1 ]

\* -------------------------------------------------------- PerformanceMonitor
\* startMeasurement: the context is kept by the caller
StartMeasurement(w, id) ==
  [ w EXCEPT !.inv[id].started = @ + 1 ]

\* endMeasurement with _recordMetrics (the history of the model stays far
\* below maxHistorySize)
EndMeasurement(w, id, success) ==
  [ w EXCEPT
      !.hist = << [ id |-> id, commandName |-> w.inv[id].commandName,
                    success |-> success ] >> \o @,
      !.inv[id].ended = @ + 1 ]

\* ---------------------------------------------------- OptimizedCommandBridge
\* progressSteps[k] of _executeOptimizedCommand: 40, 50, 60, 70, 80, 90
ProgressSteps(k) == 30 + 10 * k

\* ticks of progressInterval that are due before finalizeTimer
TicksDue == (EstimatedMs - BootstrapMs) \div IntervalMs

\* The finally block of executeCommand reads combinedOptions, a const of the
\* try block that is out of scope there: evaluating it throws a ReferenceError
\* that replaces the pending return value or exception; _cleanup never runs.
FinallyBlock(w, id) ==
  [ w EXCEPT !.inv[id].outcome = "rejected",
             !.inv[id].error = "reference",
             !.inv[id].pc = "done" ]

\* a faulty variant of CatchBlock: the measurement is not ended. C3 does not
\* hold of it.
CatchBlock_NoEndMeasurement(w, id, e) ==
  LET w2 == [ CompleteProgress(w, id, FALSE) EXCEPT !.inv[id].finished = @ + 1 ]
      thrown == IF w2.ctx[id].cancelled \/ e = "cancelled" THEN "cancelled" ELSE e
  IN FinallyBlock(
       [ w2 EXCEPT !.inv[id].tryResult = thrown,
                   !.inv[id].outcome = "rejected",
                   !.inv[id].error = thrown,
                   !.inv[id].cached = FALSE,
                   !.inv[id].success = FALSE ], id)

\* catch (error) of executeCommand; e is the class of the error caught
CatchBlock(w, id, e) ==
  LET w1 == EndMeasurement(w, id, FALSE)
      w2 == [ CompleteProgress(w1, id, FALSE) EXCEPT !.inv[id].finished = @ + 1 ]
      thrown == IF w2.ctx[id].cancelled \/ e = "cancelled" THEN "cancelled" ELSE e
  IN FinallyBlock(
       [ w2 EXCEPT !.inv[id].tryResult = thrown,
                   !.inv[id].outcome = "rejected",
                   !.inv[id].error = thrown,
                   !.inv[id].cached = FALSE,
                   !.inv[id].success = FALSE ], id)

\* a faulty variant of AfterResolve: every result is stored, whatever its
\* success flag. C7 does not hold of it.
AfterResolve_StoreAny(w, id, result, t) ==
  LET i == w.inv[id]
      w1 == [ w EXCEPT !.exec = @ + 1 ]
      w2 == IF ~i.skipCache
            THEN [ w1 EXCEPT !.cache = CacheStore(@, t, i.commandName, i.args, result) ]
            ELSE w1
      w3 == EndMeasurement(w2, id, result.success)
      w4 == [ CompleteProgress(w3, id, result.success)
                EXCEPT !.inv[id].finished = @ + 1 ]
  IN FinallyBlock(
       [ w4 EXCEPT !.inv[id].tryResult = "return",
                   !.inv[id].outcome = "resolved",
                   !.inv[id].error = "none",
                   !.inv[id].cached = FALSE,
                   !.inv[id].success = result.success ], id)

\* executeCommand after the awaited promise resolved with result
\* (lines 129-154), then the finally block
AfterResolve(w, id, result, t) ==
  LET i == w.inv[id]
      w1 == [ w EXCEPT !.exec = @ + 1 ]
      w2 == IF result.success /\ ~i.skipCache
            THEN [ w1 EXCEPT !.cache = CacheSet(@, t, i.commandName, i.args, result) ]
            ELSE w1
      w3 == EndMeasurement(w2, id, result.success)
      w4 == [ CompleteProgress(w3, id, result.success)
                EXCEPT !.inv[id].finished = @ + 1 ]
  IN FinallyBlock(
       [ w4 EXCEPT !.inv[id].tryResult = "return",
                   !.inv[id].outcome = "resolved",
                   !.inv[id].error = "none",
                   !.inv[id].cached = FALSE,
                   !.inv[id].success = result.success ], id)

\* the try block of executeCommand up to the await (lines 74-127) and
\* _executeOptimizedCommand up to the creation of its promise (lines 188-270)
TryBlock(w, id) ==
  LET i == w.inv[id]
  IN IF validateParameters(i.commandName, i.args) # "ok"
     THEN CatchBlock(w, id, "validation")
     ELSE LET w1 == UpdateProgress(w, id, 10, "validating")
              w2 == UpdateProgress(w1, id, 20, "preparing")
              w3 == [ w2 EXCEPT !.inv[id].listener = (i.signal # "none"),
                                !.inv[id].dispatched = @ + 1 ]
              w4 == UpdateProgress(w3, id, 30, "executing")
          IN [ w4 EXCEPT !.inv[id].promise = "pending",
                         !.inv[id].timer = "bootstrap",
                         !.inv[id].pc = "awaiting" ]

\* a faulty variant of ExecuteCommand: the measurement starts before the
\* cache is consulted. C9 does not hold of it.
ExecuteCommand_MeasureFirst(w, id, t) ==
  LET i == w.inv[id]
      m == StartMeasurement(w, id)
      got == CacheGet(w.cache, t, i.commandName, i.args)
  IN IF ~i.skipCache /\ got.hit
     THEN [ m EXCEPT !.cache = got.cache,
                     !.inv[id].pc = "done",
                     !.inv[id].tryResult = "return",
                     !.inv[id].outcome = "resolved",
                     !.inv[id].cached = TRUE,
                     !.inv[id].success = TRUE ]
     ELSE LET w0 == IF i.skipCache THEN m ELSE [ m EXCEPT !.cache = got.cache ]
              w2 == StartProgress(w0, id, i.commandName,
                                  EstimateSteps(i.commandName))
          IN TryBlock(w2, id)

\* executeCommand from the call to its first suspension (lines 42-127)
ExecuteCommand(w, id, t) ==
  LET i == w.inv[id]
      got == CacheGet(w.cache, t, i.commandName, i.args)
  IN IF ~i.skipCache /\ got.hit
     THEN [ w EXCEPT !.cache = got.cache,
                     !.inv[id].pc = "done",
                     !.inv[id].tryResult = "return",
                     !.inv[id].outcome = "resolved",
                     !.inv[id].cached = TRUE,
                     !.inv[id].success = TRUE ]
     ELSE LET w0 == IF i.skipCache THEN w ELSE [ w EXCEPT !.cache = got.cache ]
              w1 == StartMeasurement(w0, id)
              w2 == StartProgress(w1, id, i.commandName,
                                  EstimateSteps(i.commandName))
          IN TryBlock(w2, id)

\* a continuation of executeCommand is queued as a microtask: no timer
\* callback runs before it
MicrotaskPending == \E i \in Ids : inv[i].pc = "settled"

\* invocation ids are handed out in order (uuidv4 never repeats)
NextId(i) == /\ inv[i].pc = "idle"
             /\ \A j \in Ids : j < i => inv[j].pc # "idle"

\* a caller invokes executeCommand(commandName, args, {skipCache, signal}) with
\* inputs drawn from the given sets
Call(i, cmds, argLists, skips, signals) ==
  /\ NextId(i)
  /\ \E c \in cmds, a \in argLists, sk \in skips, sg \in signals :
       LET w == [ World EXCEPT
                    !.inv[i].commandName = c, !.inv[i].args = a,
                    !.inv[i].skipCache = sk, !.inv[i].signal = sg,
                    !.inv[i].preAborted = (sg = "aborted"),
                    !.inv[i].calledAfter = { j \in Ids : inv[j].pc = "done" } ]
       IN Commit(ExecuteCommand(w, i, now))
  /\ UNCHANGED now

Execute(i) == Call(i, Commands, ArgLists, BOOLEAN, SignalModes)

\* bootstrapTimer fires (lines 202-256)
Bootstrap(i) ==
  /\ inv[i].pc = "awaiting" /\ inv[i].timer = "bootstrap"
  /\ ~MicrotaskPending
  /\ LET w == IF ctx[i].aborted
              THEN CatchBlock([ World EXCEPT !.inv[i].timer = "none",
                                             !.inv[i].promise = "rejected",
                                             !.inv[i].prim = "aborted" ],
                              i, "aborted")
              ELSE [ World EXCEPT !.inv[i].timer = "finalize",
                                  !.inv[i].interval = TRUE,
                                  !.inv[i].idx = 0 ]
     IN Commit(w)
  /\ UNCHANGED now

\* progressInterval fires (lines 221-231); the ticks due before finalizeTimer
ProgressTick(i) ==
  /\ inv[i].pc = "awaiting" /\ inv[i].interval
  /\ inv[i].idx < TicksDue
  /\ ~MicrotaskPending
  /\ LET w == IF inv[i].idx < ProgressStepsLen
              THEN [ UpdateProgress(World, i, ProgressSteps(inv[i].idx + 1), "")
                       EXCEPT !.inv[i].idx = @ + 1 ]
              ELSE [ World EXCEPT !.inv[i].interval = FALSE ]
     IN Commit(w)
  /\ UNCHANGED now

\* finalizeTimer fires (lines 237-254), no earlier than the first tick of
\* progressInterval, and the continuation of executeCommand runs as the
\* next microtask
Finalize(i) ==
  /\ inv[i].pc = "awaiting" /\ inv[i].timer = "finalize"
  /\ inv[i].idx >= 1
  /\ ~MicrotaskPending
  /\ \E o \in PrimitiveOutcomes :
       LET w0 == [ World EXCEPT !.inv[i].timer = "none",
                                !.inv[i].interval = FALSE,
                                !.inv[i].idx = 0 ]
           w == IF ctx[i].aborted
                THEN CatchBlock([ w0 EXCEPT !.inv[i].promise = "rejected",
                                            !.inv[i].prim = "aborted" ],
                                i, "aborted")
                ELSE IF o = "error"
                THEN CatchBlock([ w0 EXCEPT !.inv[i].promise = "rejected",
                                            !.inv[i].prim = "error" ],
                                i, "execution")
                ELSE AfterResolve([ w0 EXCEPT !.inv[i].promise = "resolved",
                                              !.inv[i].prim = o ],
                                  i, [ success |-> (o = "ok"), by |-> i ], now)
       IN Commit(w)
  /\ UNCHANGED now

\* a caller invokes cancelCommand(commandId) (line 312)
CancelCommand(i) ==
  /\ inv[i].pc # "idle"
  /\ Commit(CancelCommandT(World, i))
  /\ UNCHANGED now

\* the externalAbortListener of executeCommand (lines 104-107), registered once
ExternalAbortListener(w, id) ==
  IF ~w.inv[id].listener THEN w
  ELSE AbortController([ w EXCEPT !.inv[id].listener = FALSE ], id)

\* the caller aborts the signal it passed as options.signal
ExternalAbort(i) ==
  /\ inv[i].pc # "idle" /\ inv[i].signal = "live"
  /\ Commit(ExternalAbortListener([ World EXCEPT !.inv[i].signal = "aborted" ], i))
  /\ UNCHANGED now

\* executeCommand resumes after its awaited promise was rejected by an abort
\* (lines 156-176)
Continue(i) ==
  /\ inv[i].pc = "settled"
  /\ Commit(CatchBlock(World, i, "aborted"))
  /\ UNCHANGED now

\* time passes
Tick ==
  /\ now < MaxTime
  /\ now' = now + 1
  /\ UNCHANGED << cache, inv, activeCommands, ctx, performanceHistory,
                  executionHistory, events >>
  /\ UNCHANGED << parserVars, cacheUserVars,
                  directVars >>

Next ==
  \/ \E i \in Ids : Execute(i)
  \/ \E i \in Ids : Bootstrap(i)
  \/ \E i \in Ids : ProgressTick(i)
  \/ \E i \in Ids : Finalize(i)
  \/ \E i \in Ids : CancelCommand(i)
  \/ \E i \in Ids : ExternalAbort(i)
  \/ \E i \in Ids : Continue(i)
  \/ Tick

Spec == Init /\ [][Next]_vars

\* ------------------------------------------------------------------ claims
Done(i) == inv[i].pc = "done"

\* the arguments pass validateParameters
ValidCall(i) == validateParameters(inv[i].commandName, inv[i].args) = "ok"

CacheableCommand(c) == c \in { "research", "analyze", "review", "explain" }

\* no entry stored so far can have expired
NoExpirySoFar == now <= TTL_analyze /\ now <= DefaultTTL

\* the history entries endMeasurement recorded for invocation i
HistoryOf(i) == { k \in DOMAIN performanceHistory : performanceHistory[k].id = i }

\* C1: of two successive calls with the same cacheable command and arguments,
\* no entry being cached before and none expiring in between, the first
\* dispatches to the primitive exactly once, stores its result and resolves
\* with cached=false; the second resolves with cached=true without dispatching.
C1_SecondCallServedFromCache ==
  \A i, j \in Ids :
    ( /\ i < j /\ Done(i) /\ Done(j) /\ i \in inv[j].calledAfter
      /\ inv[i].commandName = inv[j].commandName /\ inv[i].args = inv[j].args
      /\ CacheableCommand(inv[i].commandName) /\ ValidCall(i)
      /\ ~inv[i].skipCache /\ ~inv[j].skipCache
      /\ inv[i].signal = "none" /\ inv[j].signal = "none"
      /\ inv[i].started = 1 /\ inv[i].prim = "ok"
      /\ \A k \in Ids \ {i, j} : inv[k].pc = "idle"
      /\ NoExpirySoFar )
    => ( /\ inv[i].dispatched = 1
         /\ inv[i].outcome = "resolved" /\ ~inv[i].cached
         /\ CacheHas(cache, GenerateKey(inv[i].commandName, inv[i].args))
         /\ inv[j].outcome = "resolved" /\ inv[j].cached
         /\ inv[j].dispatched = 0 )

\* C2: when the primitive resolves with a successful result for a non-cached
\* invocation, executeCommand resolves with that result, annotated with
\* cached=false.
C2_SuccessResolvesWithMetrics ==
  \A i \in Ids :
    (Done(i) /\ inv[i].prim = "ok")
    => (inv[i].outcome = "resolved" /\ inv[i].success /\ ~inv[i].cached)

\* C3: an invocation that started tracking calls complete/fail on the tracker
\* at most once and endMeasurement at most once, exactly once each by the time
\* it has settled, and its context is then out of the live set.
C3_ExactlyOneFinalization ==
  \A i \in Ids :
    /\ inv[i].finished <= 1 /\ inv[i].ended <= 1
    /\ Cardinality(HistoryOf(i)) = inv[i].ended
    /\ (Done(i) /\ inv[i].started > 0)
       => ( /\ inv[i].finished = 1 /\ inv[i].ended = 1
            /\ i \notin activeCommands )

\* an invocation left through the cancellation path of the catch block
C3_Witness ==
  \E i \in Ids : Done(i) /\ inv[i].tryResult = "cancelled" /\ inv[i].ended = 1

\* C4: the signal the primitive observes is aborted whenever the external
\* signal is aborted (also when it was aborted before the call) or the
\* tracker's controller was aborted through cancelCommand.
C4_EffectiveSignalFollowsBothSources ==
  \A i \in Ids :
    (inv[i].pc = "awaiting" /\ (inv[i].signal = "aborted" \/ ctx[i].cancelled))
    => ctx[i].aborted

\* C5: a call made with an already aborted external signal never reaches the
\* primitive, and the error its try/catch raises is the cancellation error.
C5_PreAbortedNeverDispatches ==
  \A i \in Ids :
    inv[i].preAborted
    => ( /\ inv[i].dispatched = 0
         /\ Done(i) => inv[i].tryResult = "cancelled" )

\* C6: for an invocation whose in-flight process call was aborted, through
\* cancelCommand or through the external signal, the error the try/catch of
\* executeCommand raises is the cancellation error ("... was cancelled").
C6_CancellationIsDistinct ==
  \A i \in Ids :
    (Done(i) /\ inv[i].prim = "aborted") => inv[i].tryResult = "cancelled"

\* C7: every entry of the result cache was stored by an invocation whose
\* process execution succeeded.
C7_OnlySuccessfulResultsCached ==
  \A k \in DOMAIN cache :
    /\ cache[k].result.success
    /\ inv[cache[k].result.by].prim = "ok"
    /\ cache[k].key = GenerateKey(inv[cache[k].result.by].commandName,
                                  inv[cache[k].result.by].args)

\* a cacheable invocation whose process call failed or was aborted has
\* settled and left no entry
C7_Witness ==
  \E i \in Ids :
    /\ Done(i) /\ inv[i].prim \in { "fail", "error", "aborted" }
    /\ CacheableCommand(inv[i].commandName) /\ ~inv[i].skipCache
    /\ \A k \in DOMAIN cache : cache[k].result.by # i

\* C8: for an invocation with a malformed command name or malformed
\* arguments the try/catch of executeCommand raises a validation error, and
\* no tracking has started: no measurement, no progress context, no event.
C8_ValidationBeforeTracking ==
  \A i \in Ids :
    (Done(i) /\ ~ValidCall(i))
    => ( /\ inv[i].tryResult = "validation"
         /\ inv[i].started = 0 /\ inv[i].ended = 0
         /\ ctx[i] = NoCtx /\ events[i] = NoEvents
         /\ HistoryOf(i) = {} )

\* the step in which executeCommand of invocation i returns a cached result
C9_CacheHitStep(i) ==
  inv[i].pc = "idle" /\ inv'[i].pc = "done" /\ inv'[i].cached

\* C9: a call served from the cache does not reach the primitive, creates no
\* progress context, emits no event and leaves the monitor's history and
\* measurements as they were.
C9_CacheHitHasNoTrackingEffect ==
  [][ \A i \in Ids :
        C9_CacheHitStep(i)
        => ( /\ inv'[i].dispatched = 0 /\ inv'[i].started = 0
             /\ inv'[i].ended = 0 /\ inv'[i].finished = 0
             /\ activeCommands' = activeCommands
             /\ ctx' = ctx
             /\ events' = events
             /\ performanceHistory' = performanceHistory
             /\ executionHistory' = executionHistory
             /\ \A j \in Ids \ {i} : inv'[j] = inv[j] ) ]_vars

\* a call has been served from the cache
C9_Witness ==
  \E i \in Ids : Done(i) /\ inv[i].cached /\ inv[i].outcome = "resolved"

\* concurrent callers of one well-formed command, the clock standing still
ConcurrentCall(i) ==
  Call(i, { "analyze" }, { << Str("t", FALSE, FALSE) >> }, BOOLEAN, SignalModes)

ConcNext ==
  \/ \E i \in Ids : ConcurrentCall(i)
  \/ \E i \in Ids : Bootstrap(i)
  \/ \E i \in Ids : ProgressTick(i)
  \/ \E i \in Ids : Finalize(i)
  \/ \E i \in Ids : CancelCommand(i)
  \/ \E i \in Ids : ExternalAbort(i)
  \/ \E i \in Ids : Continue(i)

\* the event loop runs every due timer callback and every queued continuation
FairSpec ==
  /\ Init /\ [][ConcNext]_vars
  /\ \A i \in Ids : /\ WF_vars(Bootstrap(i))
                    /\ WF_vars(ProgressTick(i))
                    /\ WF_vars(Finalize(i))
                    /\ WF_vars(Continue(i))

\* a step of invocation i: its own handlers, and the caller's operations on it
OwnStep(i) ==
  \/ Execute(i) \/ Bootstrap(i) \/ ProgressTick(i) \/ Finalize(i)
  \/ CancelCommand(i) \/ ExternalAbort(i) \/ Continue(i)

\* C10: a step of one invocation leaves the context, the controller, the
\* live-set membership, the events and the activation of every other
\* invocation as they were, and every started invocation settles.
C10_IsolatedAndTerminating ==
  /\ [][ \A i \in Ids :
           OwnStep(i)
           => \A j \in Ids \ {i} :
                /\ ctx'[j] = ctx[j]
                /\ (j \in activeCommands') = (j \in activeCommands)
                /\ events'[j] = events[j]
                /\ inv'[j] = inv[j] ]_vars
  /\ \A i \in Ids : (inv[i].pc # "idle") ~> Done(i)

\* one invocation was cancelled and has settled while another is in flight
C10_Witness ==
  \E i, j \in Ids :
    /\ i # j /\ Done(i) /\ ctx[i].cancelled /\ ctx[i].aborted
    /\ inv[j].pc = "awaiting" /\ ~ctx[j].aborted /\ j \in activeCommands

\* ------------------------------------------------------ JSONProtocolHandler
\* The wire carries the bytes "lb" {, "rb" }, "d1" the digit 1, "dq" the
\* double quote, "nl" the newline and "C3" "A9", the two bytes of e-acute.
\* Decoded text is a sequence of characters: an ASCII byte decodes to the
\* character of the same name, "e9" is e-acute and "FFFD" is the replacement
\* character StringDecoder puts for a byte sequence that is not UTF-8.
Bytes == { "lb", "rb", "d1", "dq", "nl", "C3", "A9" }

\* Buffer.byteLength(text, 'utf8')
ByteLengthOfChar(ch) ==
  IF ch = "e9" THEN 2 ELSE IF ch = "FFFD" THEN 3 ELSE 1

RECURSIVE ByteLength(_)
ByteLength(text) ==
  IF text = <<>> THEN 0
  ELSE ByteLengthOfChar(Head(text)) + ByteLength(Tail(text))

RECURSIVE DecoderWrite(_, _)
\* StringDecoder.write(data): the characters completed by data, pending being
\* the bytes of a character the decoder holds from earlier calls
DecoderWrite(pending, data) ==
  IF data = <<>> THEN <<>>
  ELSE IF pending # <<>>
  THEN IF Head(data) = "A9"
       THEN <<"e9">> \o DecoderWrite(<<>>, Tail(data))
       ELSE <<"FFFD">> \o DecoderWrite(<<>>, data)
  ELSE IF Head(data) = "C3" THEN DecoderWrite(<<"C3">>, Tail(data))
  ELSE IF Head(data) = "A9" THEN <<"FFFD">> \o DecoderWrite(<<>>, Tail(data))
  ELSE <<Head(data)>> \o DecoderWrite(<<>>, Tail(data))

\* a faulty variant of DecoderPending: the bytes of an unfinished character
\* are dropped at the end of a chunk. C11 does not hold of it.
DecoderPending_Dropped(pending, data) == <<>>

\* the bytes the decoder holds after write(data)
DecoderPending(pending, data) ==
  IF data = <<>> THEN pending
  ELSE IF data[Len(data)] = "C3" THEN <<"C3">> ELSE <<>>

RECURSIVE SplitLines(_)
\* String.prototype.split('\n'): one segment more than there are newlines
SplitLines(text) ==
  IF \A k \in DOMAIN text : text[k] # "nl" THEN << text >>
  ELSE LET n == CHOOSE k \in DOMAIN text :
                  text[k] = "nl" /\ \A j \in 1..(k - 1) : text[j] # "nl"
       IN << SubSeq(text, 1, n - 1) >>
            \o SplitLines(SubSeq(text, n + 1, Len(text)))

\* JSON.parse on the characters of the model: the empty object, a number
\* written with the digit 1, a string without escapes; anything else throws
JsonKind(line) ==
  IF line = << "lb", "rb" >> THEN "object"
  ELSE IF Len(line) >= 1 /\ \A k \in DOMAIN line : line[k] = "d1" THEN "number"
  ELSE IF /\ Len(line) >= 2 /\ line[1] = "dq" /\ line[Len(line)] = "dq"
          /\ \A k \in 2..(Len(line) - 1) : line[k] # "dq" THEN "string"
  ELSE "SyntaxError"

\* the value JSON.parse returns
JsonParse(line) ==
  [ kind |-> JsonKind(line),
    body |-> IF JsonKind(line) = "string" THEN SubSeq(line, 2, Len(line) - 1)
             ELSE IF JsonKind(line) = "number" THEN line
             ELSE <<>> ]

\* constructor: limits and the empty parser state
NewHandler(maxMessageSize, maxBufferSize) ==
  [ maxMessageSize |-> maxMessageSize, maxBufferSize |-> maxBufferSize,
    incompleteLine |-> <<>>, bufferBytes |-> 0, decoder |-> <<>> ]

\* the reset both size errors perform before they throw
ResetHandler(h) ==
  [ h EXCEPT !.incompleteLine = <<>>, !.bufferBytes = 0, !.decoder = <<>> ]

\* the first line of the loop that is not blank and is longer than
\* maxMessageSize, 0 when there is none (the alphabet has no white space, so
\* line.trim() === '' is line === '')
FirstOversized(h, lines) ==
  IF \E k \in DOMAIN lines :
       lines[k] # <<>> /\ ByteLength(lines[k]) > h.maxMessageSize
  THEN CHOOSE k \in DOMAIN lines :
         /\ lines[k] # <<>> /\ ByteLength(lines[k]) > h.maxMessageSize
         /\ \A j \in 1..(k - 1) :
              ~(lines[j] # <<>> /\ ByteLength(lines[j]) > h.maxMessageSize)
  ELSE 0

RECURSIVE ParseLines_StopAtMalformed(_)
\* a faulty variant of ParseLines: a malformed line ends the batch. C14 does
\* not hold of it.
ParseLines_StopAtMalformed(lines) ==
  IF lines = <<>> THEN <<>>
  ELSE IF Head(lines) = <<>> THEN ParseLines_StopAtMalformed(Tail(lines))
  ELSE IF JsonKind(Head(lines)) = "SyntaxError" THEN <<>>
  ELSE << JsonParse(Head(lines)) >> \o ParseLines_StopAtMalformed(Tail(lines))

RECURSIVE ParseLines(_)
\* the loop over the complete lines (lines 46-62) when none is oversized:
\* blank lines are passed over, a line JSON.parse rejects is logged and
\* skipped
ParseLines(lines) ==
  IF lines = <<>> THEN <<>>
  ELSE IF Head(lines) = <<>> THEN ParseLines(Tail(lines))
  ELSE IF JsonKind(Head(lines)) = "SyntaxError" THEN ParseLines(Tail(lines))
  ELSE << JsonParse(Head(lines)) >> \o ParseLines(Tail(lines))

\* parseBuffer(data): the handler afterwards, the messages returned, and the
\* error thrown ("none", "buffer" or "message")
ParseBuffer(h, data) ==
  IF h.bufferBytes + Len(data) > h.maxBufferSize
  THEN [ handler |-> ResetHandler(h), messages |-> <<>>, error |-> "buffer" ]
  ELSE LET chunk == DecoderWrite(h.decoder, data)
           segments == SplitLines(h.incompleteLine \o chunk)
           lines == SubSeq(segments, 1, Len(segments) - 1)
           rest == segments[Len(segments)]
       IN IF FirstOversized(h, lines) # 0
          THEN [ handler |-> ResetHandler(h), messages |-> <<>>,
                 error |-> "message" ]
          ELSE [ handler |-> [ h EXCEPT
                                 !.incompleteLine = rest,
                                 !.bufferBytes = ByteLength(rest),
                                 !.decoder = DecoderPending(h.decoder, data) ],
                 messages |-> ParseLines(lines), error |-> "none" ]

\* ---------------------------------------------- a handler fed chunk by chunk
MaxChunk == 2        \* bytes in one chunk
LimitBase == 3       \* the size the configured limits are set around

\* the configurations: a buffer limit above the message limit, as in the
\* tests, and the two limits equal, as in the defaults of the constructor
Limits ==
  { [ maxMessageSize |-> LimitBase - 1, maxBufferSize |-> LimitBase + 1 ],
    [ maxMessageSize |-> LimitBase, maxBufferSize |-> LimitBase ] }

\* the chunks a read can deliver
Chunks == UNION { [ 1..n -> Bytes ] : n \in 1..MaxChunk }

\* the orchestrator and the cache, not in use
IdleBridge ==
  /\ now = 0
  /\ cache = <<>>
  /\ inv = [i \in Ids |-> IdleInv]
  /\ activeCommands = {}
  /\ ctx = [i \in Ids |-> NoCtx]
  /\ performanceHistory = <<>>
  /\ executionHistory = 0
  /\ events = [i \in Ids |-> NoEvents]

NoReply == [ messages |-> <<>>, error |-> "none" ]

ParserInit ==
  /\ IdleBridge
  /\ handler \in { NewHandler(l.maxMessageSize, l.maxBufferSize) : l \in Limits }
  /\ reply = NoReply
  /\ stream = Unused /\ lastOp = Unused /\ keyCase = Unused
  /\ tracker = Unused /\ monitor = Unused

\* parseBuffer(data) is called with the bytes of one read
Feed(data) ==
  /\ LET r == ParseBuffer(handler, data)
     IN /\ handler' = r.handler
        /\ reply' = [ messages |-> r.messages, error |-> r.error ]
  /\ UNCHANGED << now, cache, bridgeVars, stream, cacheUserVars,
                  directVars >>

ParserNext == \E data \in Chunks : Feed(data)

ParserSpec == ParserInit /\ [][ParserNext]_vars

\* the lines a call completes: the retained fragment and the decoded chunk,
\* cut at the newlines, without the trailing fragment
CompletedLines(h, data) ==
  LET segments == SplitLines(h.incompleteLine \o DecoderWrite(h.decoder, data))
  IN SubSeq(segments, 1, Len(segments) - 1)

\* text decoded from well-formed UTF-8: as many bytes as were received
WellFormedText(text) == \A k \in DOMAIN text : text[k] # "FFFD"

\* C12: a call that completes a line of well-formed UTF-8 whose body is longer
\* than the per-message limit throws the message-size error and leaves the handler as
\* a new one with the same limits, so that what is fed next is parsed as by a
\* fresh parser.
C12_OversizedLineRaisesAndResets ==
  [][ \A data \in Chunks :
        ( /\ Feed(data)
          /\ \E k \in DOMAIN CompletedLines(handler, data) :
               /\ WellFormedText(CompletedLines(handler, data)[k])
               /\ ByteLength(CompletedLines(handler, data)[k])
                    > handler.maxMessageSize )
        => ( /\ reply'.error = "message"
             /\ handler' = NewHandler(handler.maxMessageSize,
                                      handler.maxBufferSize) ) ]_vars

\* the bytes the handler keeps between calls: the fragment and the bytes of a
\* character the decoder holds
RetainedBytes(h) == ByteLength(h.incompleteLine) + Len(h.decoder)

\* C13: after every parseBuffer call the bytes the parser retains do not
\* exceed maxBufferSize, and a call that throws the buffer-size error leaves
\* the parser empty.
C13_RetainedBytesWithinLimit ==
  /\ RetainedBytes(handler) <= handler.maxBufferSize
  /\ handler.bufferBytes <= handler.maxBufferSize
  /\ reply.error = "buffer" => RetainedBytes(handler) = 0

\* ------------------------------------ a stream of lines fed whole and in two
MaxLines == 2        \* lines in a stream
LineLimit == 4       \* maxMessageSize of the handler that reads the stream
StreamLimit == 8     \* maxBufferSize of the handler that reads the stream

\* lines that are JSON: {}, 1 and "e-acute"
GoodLines == { << "lb", "rb" >>, << "d1" >>, << "dq", "C3", "A9", "dq" >> }

\* lines that are not: {, a bare e-acute, and the blank line
BadLines == { << "lb" >>, << "C3", "A9" >>, <<>> }

\* the message a good line stands for
ExpectedMessage(line) ==
  IF line = << "lb", "rb" >> THEN [ kind |-> "object", body |-> <<>> ]
  ELSE IF line = << "d1" >> THEN [ kind |-> "number", body |-> << "d1" >> ]
  ELSE [ kind |-> "string", body |-> << "e9" >> ]

RECURSIVE Serialize(_)
\* the bytes of a stream: each line followed by a newline
Serialize(lines) ==
  IF lines = <<>> THEN <<>>
  ELSE Head(lines) \o << "nl" >> \o Serialize(Tail(lines))

RECURSIVE ExpectedMessages(_)
\* the messages of the good lines, in order
ExpectedMessages(lines) ==
  IF lines = <<>> THEN <<>>
  ELSE IF Head(lines) \in GoodLines
  THEN << ExpectedMessage(Head(lines)) >> \o ExpectedMessages(Tail(lines))
  ELSE ExpectedMessages(Tail(lines))

StreamInit ==
  /\ IdleBridge
  /\ handler = NewHandler(LineLimit, StreamLimit)
  /\ reply = NoReply
  /\ \E n \in 1..MaxLines :
       \E lines \in [ 1..n -> GoodLines \cup BadLines ] :
         \E cut \in 0..Len(Serialize(lines)) :
           stream = [ lines |-> lines, bytes |-> Serialize(lines), cut |-> cut,
                      stage |-> "start", whole |-> NoReply,
                      first |-> NoReply, second |-> NoReply ]
  /\ lastOp = Unused /\ keyCase = Unused
  /\ tracker = Unused /\ monitor = Unused

\* a new handler is given the whole stream in one parseBuffer call
FeedWhole ==
  /\ stream.stage = "start"
  /\ LET r == ParseBuffer(NewHandler(LineLimit, StreamLimit), stream.bytes)
     IN /\ handler' = r.handler
        /\ reply' = [ messages |-> r.messages, error |-> r.error ]
        /\ stream' = [ stream EXCEPT !.stage = "whole", !.whole = reply' ]
  /\ UNCHANGED << now, cache, bridgeVars, cacheUserVars,
                  directVars >>

\* another new handler is given the bytes before the cut
FeedFirst ==
  /\ stream.stage = "whole"
  /\ LET r == ParseBuffer(NewHandler(LineLimit, StreamLimit),
                          SubSeq(stream.bytes, 1, stream.cut))
     IN /\ handler' = r.handler
        /\ reply' = [ messages |-> r.messages, error |-> r.error ]
        /\ stream' = [ stream EXCEPT !.stage = "first", !.first = reply' ]
  /\ UNCHANGED << now, cache, bridgeVars, cacheUserVars,
                  directVars >>

\* and then the bytes after the cut
FeedSecond ==
  /\ stream.stage = "first"
  /\ LET r == ParseBuffer(handler, SubSeq(stream.bytes, stream.cut + 1,
                                          Len(stream.bytes)))
     IN /\ handler' = r.handler
        /\ reply' = [ messages |-> r.messages, error |-> r.error ]
        /\ stream' = [ stream EXCEPT !.stage = "done", !.second = reply' ]
  /\ UNCHANGED << now, cache, bridgeVars, cacheUserVars,
                  directVars >>

StreamNext == FeedWhole \/ FeedFirst \/ FeedSecond

StreamSpec == StreamInit /\ [][StreamNext]_vars

\* every line of the stream is JSON within the message limit, and the stream
\* is within the buffer limit
WithinLimits ==
  /\ \A k \in DOMAIN stream.lines : Len(stream.lines[k]) <= LineLimit
  /\ Len(stream.bytes) <= StreamLimit

CacheMaxTime == 2      \* last value of the clock of the cache specification
MaxHits == 1           \* hits counted per entry

CacheCommands == { "analyze", "research", "help" }

CacheArgLists == { <<Str("t", FALSE, FALSE)>>, <<Str("u", FALSE, FALSE)>> }

CustomTTLs == { NoTTL, <<0>>, <<2>> }

\* the TTL the caller supplied to set: the custom one when there is one,
\* else the one of the per-command table, else the default
SuppliedTTL(commandName, customTTL) ==
  IF customTTL # NoTTL THEN customTTL[1]
  ELSE IF commandName = "analyze" THEN TTL_analyze
  ELSE IF commandName = "research" THEN TTL_research
  ELSE DefaultTTL

\* a result as the caller builds it: whether it succeeded, the length of its
\* JSON text, and as payload the time of the set and the TTL supplied with it
CacheResult(success, len, t, ttl) ==
  [success |-> success, len |-> len, at |-> t, ttl |-> ttl]

\* what the last operation on the cache was and returned, the size of the map
\* before it, how many entries it removed as expired, the hit counts and last
\* access times of those it removed by score, and for a set the command and
\* the result it was called with; value is what a get or an invalidate
\* returned, as a one-element sequence, empty for null and for undefined
Op(op, ret, sizeBefore, expired, scored) ==
  [op |-> op, ret |-> ret, sizeBefore |-> sizeBefore,
   expired |-> expired, scored |-> scored,
   commandName |-> "", success |-> FALSE, len |-> 0, value |-> <<>>]

SetOp(ret, sizeBefore, expired, scored, commandName, result) ==
  [op |-> "set", ret |-> ret, sizeBefore |-> sizeBefore,
   expired |-> expired, scored |-> scored,
   commandName |-> commandName, success |-> result.success, len |-> result.len,
   value |-> <<>>]

GetOp(got, sizeBefore) ==
  [op |-> "get", ret |-> got.hit, sizeBefore |-> sizeBefore,
   expired |-> sizeBefore - Len(got.cache), scored |-> {},
   commandName |-> "", success |-> FALSE, len |-> 0, value |-> got.value]

NoOp == Op("none", FALSE, 0, 0, {})

CacheInit ==
  /\ IdleBridge
  /\ handler = Unused /\ reply = Unused /\ stream = Unused
  /\ lastOp = NoOp
  /\ keyCase = Unused
  /\ tracker = Unused /\ monitor = Unused

\* hit count and last access time of the entries of c that d no longer holds
Accesses(c, d) ==
  { [hitCount |-> c[k].hitCount, lastAccessed |-> c[k].lastAccessed] :
      k \in { j \in DOMAIN c : ~CacheHas(d, c[j].key) } }

\* cache.set(commandName, args, result, customTTL)
CSet(commandName, args, success, len, customTTL) ==
  LET result == CacheResult(success, len, now, SuppliedTTL(commandName, customTTL))
      evicts == ShouldCache(commandName, result) /\ Len(cache) >= CacheMaxSize
      live == CacheCleanup(cache, now)
      kept == EvictOldEntries(cache, now)
  IN /\ cache' = CacheSetTTL(cache, now, commandName, args, result, customTTL)
     /\ lastOp' = SetOp(ShouldCache(commandName, result), Len(cache),
                        IF evicts THEN Len(cache) - Len(live) ELSE 0,
                        IF evicts THEN Accesses(live, kept) ELSE {},
                        commandName, result)
     /\ UNCHANGED << now, bridgeVars, parserVars, keyCase,
                     directVars >>

\* cache.get(commandName, args)
CGet(commandName, args) ==
  LET got == CacheGet(cache, now, commandName, args)
  IN /\ got.hitCount <= MaxHits
     /\ cache' = got.cache
     /\ lastOp' = GetOp(got, Len(cache))
     /\ UNCHANGED << now, bridgeVars, parserVars, keyCase,
                     directVars >>

\* cache.invalidate(commandName, args)
CInvalidateKey(commandName, args) ==
  /\ cache' = CacheInvalidateKey(cache, commandName, args)
  /\ lastOp' = Op("invalidate", FALSE, Len(cache), 0, {})
  /\ UNCHANGED << now, bridgeVars, parserVars, keyCase,
                  directVars >>

\* cache.invalidate(commandName)
CInvalidateCommand(commandName) ==
  /\ cache' = CacheInvalidateCommand(cache, commandName)
  /\ lastOp' = Op("invalidate", FALSE, Len(cache), 0, {})
  /\ UNCHANGED << now, bridgeVars, parserVars, keyCase,
                  directVars >>

\* the callback of cleanupInterval
CSweep ==
  /\ cache' = CacheCleanup(cache, now)
  /\ lastOp' = Op("sweep", FALSE, Len(cache),
                  Len(cache) - Len(CacheCleanup(cache, now)), {})
  /\ UNCHANGED << now, bridgeVars, parserVars, keyCase,
                  directVars >>

\* Date.now() advances
CTick ==
  /\ now < CacheMaxTime
  /\ now' = now + 1
  /\ lastOp' = NoOp
  /\ UNCHANGED << cache, bridgeVars, parserVars, keyCase,
                  directVars >>

CacheNext ==
  \/ \E c \in CacheCommands, a \in CacheArgLists, ok \in BOOLEAN,
        len \in 1..(SizeCeiling \div 2 + 1), ttl \in CustomTTLs :
        CSet(c, a, ok, len, ttl)
  \/ \E c \in CacheCommands, a \in CacheArgLists : CGet(c, a)
  \/ \E c \in CacheCommands, a \in CacheArgLists : CInvalidateKey(c, a)
  \/ \E c \in CacheCommands : CInvalidateCommand(c)
  \/ CSweep
  \/ CTick

CacheSpec == CacheInit /\ [][CacheNext]_vars

\* const cacheableCommands of _shouldCache
CacheableCommands == { "research", "analyze", "review", "explain" }

\* a set of this result must be refused: it signals failure, its estimated
\* size exceeds the ceiling, or its command is not cacheable
MustReject(commandName, success, len) ==
  \/ ~success
  \/ 2 * len > SizeCeiling
  \/ commandName \notin CacheableCommands

\* C15: a set whose result signals failure, whose estimated size exceeds the
\* ceiling, or whose command is not in the allow-list returns false and
\* leaves the cache as it was; every stored entry belongs to an allow-listed
\* command and holds a non-failed result within the ceiling.
C15_RejectedSetLeavesCacheUnchanged ==
  /\ [](\A k \in DOMAIN cache :
          ~MustReject(cache[k].commandName, cache[k].result.success,
                      cache[k].result.len))
  /\ [][(lastOp'.op = "set"
          /\ MustReject(lastOp'.commandName, lastOp'.success, lastOp'.len))
            => (~lastOp'.ret /\ cache' = cache)]_vars

\* a set was refused while the map was full, and the map is still full
C15_Witness ==
  /\ lastOp.op = "set" /\ ~lastOp.ret
  /\ MustReject(lastOp.commandName, lastOp.success, lastOp.len)
  /\ lastOp.sizeBefore = CacheMaxSize
  /\ Len(cache) = CacheMaxSize

\* the entry the map holds for get(commandName, args), with the time it was
\* set at and the TTL supplied with it; <<>> when the map holds none
StoredFor(commandName, args) ==
  LET k == CacheIndex(cache, GenerateKey(commandName, args))
  IN IF k = 0 THEN <<>> ELSE << cache[k] >>

\* the time after which an entry must miss: the time of its set plus the TTL
\* supplied with it
Deadline(e) == e.result.at + e.result.ttl

\* C16: an entry stored at time s with TTL t, still in the map, is returned by
\* get at every time before s+t and is a miss at every time strictly after
\* s+t, where t is the TTL supplied at set time (custom, per-command or
\* default); the sweep removes no entry before s+t.
C16_SuppliedTTLGovernsExpiry ==
  [][(\A c \in CacheCommands, a \in CacheArgLists :
        (lastOp'.op = "get" /\ StoredFor(c, a) # <<>> /\ CGet(c, a))
          => ( /\ (now < Deadline(StoredFor(c, a)[1])) => lastOp'.ret
               /\ (now > Deadline(StoredFor(c, a)[1])) => ~lastOp'.ret ))
     /\ (lastOp'.op = "sweep"
          => \A k \in DOMAIN cache :
               (now < Deadline(cache[k])) => CacheHas(cache', cache[k].key))
    ]_vars

\* C17: after any sequence of set, get, invalidate and sweep the number of
\* entries never exceeds the configured maximum.
C17_SizeNeverExceedsMax == Len(cache) <= CacheMaxSize

\* a set into the full map was accepted after an eviction, and the map is
\* full again
C17_Witness ==
  /\ lastOp.op = "set" /\ lastOp.ret
  /\ lastOp.sizeBefore = CacheMaxSize
  /\ lastOp.expired + Cardinality(lastOp.scored) >= 1
  /\ Len(cache) = CacheMaxSize

\* 0.7 * hitCount + 0.3 * lastAccessedSeconds, times 10, for an access record
\* with lastAccessed in units of 300 seconds
BlendedScore(a) == 7 * a.hitCount + 3 * (300 * a.lastAccessed)

\* the entries of the map before a step that the map still holds after it,
\* untouched
Remaining == { cache[k] : k \in { j \in DOMAIN cache :
                                   \E i \in DOMAIN cache' : cache'[i] = cache[j] } }

Others(c, key) == SelectSeq(c, LAMBDA e : e.key # key)

\* C21: a get that hits adds exactly 1 to the hitCount of its entry, sets its
\* lastAccessed to the time of the call and returns the stored result with the
\* provenance data (cached flag, hit count, cached time); a get that finds an
\* expired entry deletes it and reports a miss; no get changes or removes
\* another entry.
C21_GetCountsHitAndTouchesOnlyItsEntry ==
  [][\A c \in CacheCommands, a \in CacheArgLists :
       (lastOp'.op = "get" /\ CGet(c, a))
         => LET key == GenerateKey(c, a)
                e == StoredFor(c, a)[1]
                f == cache'[CacheIndex(cache', key)]
            IN /\ Others(cache', key) = Others(cache, key)
               /\ (StoredFor(c, a) = <<>>)
                    => (cache' = cache /\ ~lastOp'.ret /\ lastOp'.value = <<>>)
               /\ (StoredFor(c, a) # <<>> /\ now > e.expiresAt)
                    => ( /\ ~CacheHas(cache', key)
                         /\ ~lastOp'.ret /\ lastOp'.value = <<>> )
               /\ (StoredFor(c, a) # <<>> /\ now <= e.expiresAt)
                    => ( /\ lastOp'.ret
                         /\ CacheHas(cache', key)
                         /\ f = [e EXCEPT !.hitCount = e.hitCount + 1,
                                          !.lastAccessed = now]
                         /\ lastOp'.value[1].result = e.result
                         /\ lastOp'.value[1].cacheInfo
                              = [cached |-> TRUE, hitCount |-> e.hitCount + 1,
                                 cachedAt |-> e.cachedAt, lastAccessed |-> now] )
    ]_vars

\* a get hit an entry stored at an earlier time while the map holds another
\* entry
C21_Witness ==
  /\ lastOp.op = "get" /\ lastOp.ret
  /\ Len(cache) = CacheMaxSize
  /\ lastOp.value[1].cacheInfo.hitCount = 1
  /\ lastOp.value[1].cacheInfo.cachedAt < lastOp.value[1].cacheInfo.lastAccessed

\* C22: invalidate(command) removes exactly the entries of that command,
\* invalidate(command, args) exactly the entry of that key; every other entry
\* stays as it was, and the value returned is the number of entries removed.
C22_InvalidateRemovesExactlyAndCounts ==
  [][(\A c \in CacheCommands, a \in CacheArgLists :
        (lastOp'.op = "invalidate" /\ CInvalidateKey(c, a))
          => ( /\ cache' = Others(cache, GenerateKey(c, a))
               /\ lastOp'.value = << Len(cache) - Len(cache') >> ))
     /\ (\A c \in CacheCommands :
           (lastOp'.op = "invalidate" /\ CInvalidateCommand(c))
             => ( /\ cache' = SelectSeq(cache, LAMBDA e : e.commandName # c)
                  /\ lastOp'.value = << Len(cache) - Len(cache') >> ))
    ]_vars

\* ---------------------------------------------------------------------------
\* _generateKey on pairs of calls, and set followed by get

KeyMaxEntries == 1     \* entries set before the gets

KeyCommands == { "analyze", "research" }

KeyOrders == { <<1, 2>>, <<2, 1>> }

\* one argument: the string 't' with and without surrounding blanks and
\* capitals, the string 'u', and one object with its keys and the keys of its
\* nested object inserted in either order
KeyArgs ==
  { Str("t", ws, up) : ws \in BOOLEAN, up \in BOOLEAN }
    \cup { Str("u", FALSE, FALSE) }
    \cup { Obj(keys, inner) : keys \in KeyOrders, inner \in KeyOrders }

KeyArgLists ==
  { <<a>> : a \in KeyArgs }
    \cup { << Str("t", FALSE, FALSE), Str("u", FALSE, FALSE) >>,
           << Str("u", FALSE, FALSE), Str("t", FALSE, FALSE) >> }

KeyInit ==
  /\ IdleBridge
  /\ handler = Unused /\ reply = Unused /\ stream = Unused
  /\ lastOp = Unused
  /\ tracker = Unused /\ monitor = Unused
  /\ keyCase = [stage |-> "new"]

\* _generateKey(commandName, args) called twice; keyCase keeps the pair and
\* the key of the call before as c1, a1, k1
KGenerate(commandName, args) ==
  /\ keyCase' =
       IF keyCase.stage = "keys"
       THEN [stage |-> "keys", paired |-> TRUE,
             c1 |-> keyCase.c2, a1 |-> keyCase.a2, k1 |-> keyCase.k2,
             c2 |-> commandName, a2 |-> args,
             k2 |-> GenerateKey(commandName, args),
             again |-> GenerateKey(commandName, args)]
       ELSE [stage |-> "keys", paired |-> FALSE,
             c1 |-> commandName, a1 |-> args,
             k1 |-> GenerateKey(commandName, args),
             c2 |-> commandName, a2 |-> args,
             k2 |-> GenerateKey(commandName, args),
             again |-> GenerateKey(commandName, args)]
  /\ UNCHANGED << now, cache, bridgeVars, parserVars, lastOp,
                  directVars >>

\* cache.set(commandName, args, result) with a result that names its call
KSet(commandName, args) ==
  /\ Len(cache) < KeyMaxEntries
  /\ cache' = CacheSet(cache, now, commandName, args,
                       [success |-> TRUE, len |-> 1,
                        commandName |-> commandName, args |-> args])
  /\ keyCase' = [stage |-> "set"]
  /\ UNCHANGED << now, bridgeVars, parserVars, lastOp,
                  directVars >>

\* cache.get(commandName, args)
KGet(commandName, args) ==
  LET got == CacheGet(cache, now, commandName, args)
      k == CacheIndex(cache, GenerateKey(commandName, args))
  IN /\ got.hitCount <= MaxHits
     /\ cache' = got.cache
     /\ keyCase' = [stage |-> "got", commandName |-> commandName,
                    args |-> args, hit |-> got.hit,
                    result |-> IF got.hit THEN << cache[k].result >> ELSE <<>>]
     /\ UNCHANGED << now, bridgeVars, parserVars, lastOp,
                     directVars >>

KeyNext ==
  \/ \E c \in KeyCommands, a \in KeyArgLists : KGenerate(c, a)
  \/ \E c \in KeyCommands, a \in KeyArgLists : KSet(c, a)
  \/ \E c \in KeyCommands, a \in KeyArgLists : KGet(c, a)

KeySpec == KeyInit /\ [][KeyNext]_vars

\* two arguments differ at most in the blanks around a string or in the order
\* of the keys of an object, nested ones included
SameArg(x, y) ==
  IF IsObject(x) \/ IsObject(y) THEN IsObject(x) /\ IsObject(y)
  ELSE x.core = y.core /\ x.up = y.up

SameArgs(a, b) ==
  /\ Len(a) = Len(b)
  /\ \A k \in DOMAIN a : SameArg(a[k], b[k])

\* C19: _generateKey gives the same key for string arguments that differ only
\* in leading and trailing whitespace and for object arguments that differ
\* only in the order of their keys, and the same key every time for the same
\* input.
C19_KeyInvariantToWhitespaceAndKeyOrder ==
  keyCase.stage = "keys"
    => /\ keyCase.again = keyCase.k2
       /\ (keyCase.c1 = keyCase.c2 /\ SameArgs(keyCase.a1, keyCase.a2))
            => keyCase.k1 = keyCase.k2

\* C20: pairs that differ in the command or in the arguments, other than by
\* surrounding whitespace or object key order, get different keys, and get
\* never returns a result stored under such a different pair.
C20_DifferentCallsDifferentKeys ==
  /\ keyCase.stage = "keys"
       => (~(keyCase.c1 = keyCase.c2 /\ SameArgs(keyCase.a1, keyCase.a2))
             => keyCase.k1 # keyCase.k2)
  /\ (keyCase.stage = "got" /\ keyCase.hit)
       => /\ keyCase.result[1].commandName = keyCase.commandName
          /\ SameArgs(keyCase.result[1].args, keyCase.args)

\* ---------------------------------------------------------------------------
\* ProgressManager driven directly (progress-manager.js, the first class of
\* the file, which is the one the tests exercise)

PIds == { 1, 2 }       \* command ids callers use
PMaxTime == 2          \* last value of the clock, in units of 5 seconds
MaxOrphans == 1        \* intervals left behind by creating over a live id
HeartbeatAfter == 1    \* 5000 ms, in units of 5 seconds

TerminalStatuses == { "completed", "failed", "cancelled" }

\* the values of estimatedSteps and of options.totalSteps callers pass
StepEstimates == { 0, 2 }
StepOptions == { 2 }

\* the update objects callers pass; <<>> is an undefined step, "" an
\* undefined status or message
Update(step, status, message) ==
  [ step |-> step, status |-> status, message |-> message ]

Updates ==
  { Update(<<>>, "executing", ""), Update(<< 1 >>, "", "working"),
    Update(<< 3 >>, "executing", "working"), Update(<<>>, "completed", "") }

\* the percentages and messages callers pass
PercentUpdates ==
  { Update(0 - 10, "", ""), Update(50, "", "working"), Update(150, "", "") }

\* a context object; one that was never created has status "none", and one
\* that left the map keeps the step and the status it left with
NoContext ==
  [ status |-> "none", currentStep |-> 0, totalSteps |-> 1, message |-> "",
    cancelled |-> FALSE, startTime |-> 0, intervalId |-> FALSE, aborts |-> 0,
    refed |-> FALSE ]

\* the last call: the id it was given, what it returned (TRUE and FALSE for
\* cancelCommand), the events it emitted, in order, and the progress values
\* its 'progress' events carried
PCall(id, ret, emitted) ==
  [ id |-> id, ret |-> ret, emitted |-> emitted, progress |-> <<>> ]

\* new ProgressManager()
NewTracker ==
  [ active |-> {},
    ctx |-> [ i \in PIds |-> NoContext ],
    orphans |-> [ i \in PIds |-> 0 ],
    ended |-> [ i \in PIds |-> 0 ],
    late |-> [ i \in PIds |-> FALSE ],
    call |-> PCall(0, FALSE, <<>>) ]

\* this.emit(...) of the events of one call for one id; ended counts the
\* 'complete' and 'cancelled' events of the context, late tells that an event
\* came after one of them
Emit(pm, id, names) ==
  LET terminals == Len(SelectSeq(names, LAMBDA n : n \in { "complete", "cancelled" }))
      firstTerminal ==
        IF terminals = 0 THEN Len(names) + 1
        ELSE CHOOSE k \in DOMAIN names :
               /\ names[k] \in { "complete", "cancelled" }
               /\ \A j \in 1..(k - 1) : names[j] \notin { "complete", "cancelled" }
  IN [ pm EXCEPT
         !.ended[id] = @ + terminals,
         !.late[id] = \/ @
                      \/ pm.ended[id] > 0 /\ names # <<>>
                      \/ firstTerminal < Len(names),
         !.call.emitted = @ \o names ]

Max(a, b) == IF a > b THEN a ELSE b

\* Math.round((context.currentStep / context.totalSteps) * 100)
ProgressPercent(context) ==
  (200 * context.currentStep + context.totalSteps) \div (2 * context.totalSteps)

\* the progress field of a 'progress' event about to be emitted
Report(pm, progress) ==
  [ pm EXCEPT !.call.progress = @ \o << progress >> ]

\* createProgress(commandId, commandName, estimatedSteps): the context
\* replaces whatever the map holds for the id, and the interval of a context
\* replaced while live stays scheduled
createProgress(pm, t, id, estimatedSteps) ==
  LET context == [ NoContext EXCEPT
                     !.status = "initializing", !.startTime = t,
                     !.totalSteps = Max(1, estimatedSteps),
                     !.message = "starting", !.intervalId = TRUE,
                     !.refed = TRUE ]
      replaced == id \in pm.active /\ pm.ctx[id].intervalId
      pm1 == [ pm EXCEPT
                 !.active = @ \cup {id},
                 !.ctx[id] = context,
                 !.orphans[id] = IF replaced THEN @ + 1 ELSE @,
                 !.ended[id] = 0,
                 !.late[id] = FALSE,
                 !.call = PCall(id, FALSE, <<>>) ]
  IN Emit(Report(pm1, 0), id, << "progress" >>)

\* Math.round((percentage / 100) * totalSteps) for a clamped percentage
RoundedStep(percentage, totalSteps) ==
  (Max(0, Min(100, percentage)) * totalSteps + 50) \div 100

\* the assignments of updateProgress with the step taken as it comes
ApplyUpdate_NoClamp(pm, id, step, status, message) ==
  LET pm1 == [ pm EXCEPT
                 !.ctx[id].currentStep = IF step = <<>> THEN @ ELSE step[1],
                 !.ctx[id].status = IF status = "" THEN @ ELSE status,
                 !.ctx[id].message = IF message = "" THEN @ ELSE message ]
  IN Emit(Report(pm1, ProgressPercent(pm1.ctx[id])), id, << "progress" >>)

\* the assignments of updateProgress once it has an update object, and its
\* 'progress' event
ApplyUpdate(pm, id, step, status, message) ==
  LET pm1 == [ pm EXCEPT
                 !.ctx[id].currentStep =
                    IF step = <<>> THEN @ ELSE Min(step[1], pm.ctx[id].totalSteps),
                 !.ctx[id].status = IF status = "" THEN @ ELSE status,
                 !.ctx[id].message = IF message = "" THEN @ ELSE message ]
  IN Emit(Report(pm1, ProgressPercent(pm1.ctx[id])), id, << "progress" >>)

\* updateProgress(commandId, { step, status, message })
updateProgress(pm, id, step, status, message) ==
  LET pm0 == [ pm EXCEPT !.call = PCall(id, FALSE, <<>>) ]
  IN IF id \notin pm.active \/ pm.ctx[id].cancelled THEN pm0
     ELSE ApplyUpdate(pm0, id, step, status, message)

\* updateProgress(commandId, percentage, message)
updateProgressPercent(pm, id, percentage, message) ==
  LET pm0 == [ pm EXCEPT !.call = PCall(id, FALSE, <<>>) ]
  IN IF id \notin pm.active \/ pm.ctx[id].cancelled THEN pm0
     ELSE ApplyUpdate(pm0, id,
                      << RoundedStep(percentage, pm.ctx[id].totalSteps) >>,
                      "", message)

\* _stopProgressUpdates followed by this.activeCommands.delete(commandId)
StopAndDelete(pm, id) ==
  [ pm EXCEPT !.ctx[id].intervalId = FALSE,
              !.ctx[id].message = "", !.ctx[id].startTime = 0,
              !.active = @ \ {id} ]

\* completeProgress(commandId, result), success being result.success !== false
completeProgress(pm, id, success) ==
  LET pm0 == [ pm EXCEPT !.call = PCall(id, FALSE, <<>>) ]
      pm1 == [ pm0 EXCEPT
                 !.ctx[id].currentStep = pm.ctx[id].totalSteps,
                 !.ctx[id].status = IF success THEN "completed" ELSE "failed",
                 !.ctx[id].message = "finished" ]
  IN IF id \notin pm.active THEN pm0
     ELSE StopAndDelete(
            Emit(Report(pm1, 100), id, IF success THEN << "progress", "complete" >>
                          ELSE << "progress", "failed", "complete" >>), id)

\* failProgress(commandId, errorMessage)
failProgress(pm, id) ==
  LET pm0 == [ pm EXCEPT !.call = PCall(id, FALSE, <<>>) ]
      pm1 == [ pm0 EXCEPT !.ctx[id].status = "failed",
                          !.ctx[id].message = "error" ]
  IN IF id \notin pm.active THEN pm0
     ELSE StopAndDelete(
            Emit(Report(pm1, ProgressPercent(pm1.ctx[id])), id,
                 << "progress", "failed", "complete" >>), id)

\* cancelCommand(commandId, reason)
cancelCommand(pm, id) ==
  LET pm1 == [ pm EXCEPT
                 !.call = PCall(id, TRUE, <<>>),
                 !.ctx[id].cancelled = TRUE,
                 !.ctx[id].status = "cancelled",
                 !.ctx[id].message = "reason",
                 !.ctx[id].aborts = @ + 1 ]
  IN IF id \notin pm.active \/ pm.ctx[id].cancelled
     THEN [ pm EXCEPT !.call = PCall(id, FALSE, <<>>) ]
     ELSE StopAndDelete(
            Emit(Report(pm1, ProgressPercent(pm1.ctx[id])), id,
                 << "progress", "cancelled" >>), id)

\* the test of the interval callback that lets a heartbeat out, without the
\* test of the status
HeartbeatDue_AnyStatus(context, t) == t - context.startTime > HeartbeatAfter

\* the same test letting a heartbeat out in the status 'running' alone
HeartbeatDue_OnlyRunning(context, t) ==
  /\ context.status = "running"
  /\ t - context.startTime > HeartbeatAfter

\* the test of the interval callback that lets a heartbeat out
HeartbeatDue(context, t) ==
  /\ context.status \notin TerminalStatuses
  /\ t - context.startTime > HeartbeatAfter

\* the callback of the interval a live context holds in intervalId
IntervalFires(pm, t, id) ==
  LET pm0 == [ pm EXCEPT !.call = PCall(id, FALSE, <<>>) ]
  IN IF id \notin pm.active \/ pm.ctx[id].cancelled
     THEN [ pm0 EXCEPT !.ctx[id].intervalId = FALSE ]
     ELSE IF HeartbeatDue(pm.ctx[id], t) THEN Emit(pm0, id, << "heartbeat" >>)
     ELSE pm0

\* the callback of an interval whose context was replaced in the map
OrphanFires(pm, t, id) ==
  LET pm0 == [ pm EXCEPT !.call = PCall(id, FALSE, <<>>) ]
  IN IF id \notin pm.active \/ pm.ctx[id].cancelled
     THEN [ pm0 EXCEPT !.orphans[id] = @ - 1 ]
     ELSE IF HeartbeatDue(pm.ctx[id], t) THEN Emit(pm0, id, << "heartbeat" >>)
     ELSE pm0

RECURSIVE CancelAll(_, _)
\* the loop of cleanup over the ids of the map
CancelAll(pm, ids) ==
  IF ids = {} THEN pm
  ELSE LET id == CHOOSE i \in ids : \A j \in ids : i <= j
       IN CancelAll(cancelCommand(pm, id), ids \ {id})

\* cleanup()
cleanup(pm) ==
  LET pm1 == CancelAll(pm, pm.active)
  IN [ pm1 EXCEPT !.active = {},
                  !.call = [ pm1.call EXCEPT !.id = 0, !.ret = FALSE ] ]

\* startProgress(commandId, commandName, { totalSteps }); an option of 0 is
\* falsy and gives this.maxSteps
DefaultMaxSteps == 100

startProgress(pm, t, id, totalSteps) ==
  createProgress(pm, t, id,
                 IF totalSteps = 0 THEN DefaultMaxSteps ELSE totalSteps)

\* everything but the clock and the ProgressManager
trackerFrame == << cache, bridgeVars, parserVars, cacheUserVars, monitor >>

ProgressInit ==
  /\ IdleBridge
  /\ handler = Unused /\ reply = Unused /\ stream = Unused
  /\ lastOp = Unused /\ keyCase = Unused
  /\ monitor = Unused
  /\ tracker = NewTracker

\* creating over a live id is allowed while the bound on orphans permits
MayCreate(id) ==
  id \in tracker.active => tracker.orphans[id] < MaxOrphans

PCreate(id, n) ==
  /\ MayCreate(id)
  /\ tracker' = createProgress(tracker, now, id, n)
  /\ UNCHANGED << now, trackerFrame >>

PStart(id, n) ==
  /\ MayCreate(id)
  /\ tracker' = startProgress(tracker, now, id, n)
  /\ UNCHANGED << now, trackerFrame >>

PUpdate(id, step, status, message) ==
  /\ tracker' = updateProgress(tracker, id, step, status, message)
  /\ UNCHANGED << now, trackerFrame >>

PUpdatePercent(id, percentage, message) ==
  /\ tracker' = updateProgressPercent(tracker, id, percentage, message)
  /\ UNCHANGED << now, trackerFrame >>

PComplete(id, success) ==
  /\ tracker' = completeProgress(tracker, id, success)
  /\ UNCHANGED << now, trackerFrame >>

PFail(id) ==
  /\ tracker' = failProgress(tracker, id)
  /\ UNCHANGED << now, trackerFrame >>

PCancel(id) ==
  /\ tracker' = cancelCommand(tracker, id)
  /\ UNCHANGED << now, trackerFrame >>

\* a scheduled interval of a live context comes due
PInterval(id) ==
  /\ tracker.ctx[id].intervalId
  /\ tracker' = IntervalFires(tracker, now, id)
  /\ UNCHANGED << now, trackerFrame >>

\* a scheduled interval of a replaced context comes due
POrphan(id) ==
  /\ tracker.orphans[id] > 0
  /\ tracker' = OrphanFires(tracker, now, id)
  /\ UNCHANGED << now, trackerFrame >>

PCleanup ==
  /\ tracker' = cleanup(tracker)
  /\ UNCHANGED << now, trackerFrame >>

PTick ==
  /\ now < PMaxTime
  /\ now' = now + 1
  /\ tracker' = [ tracker EXCEPT !.call = PCall(0, FALSE, <<>>) ]
  /\ UNCHANGED trackerFrame

ProgressNext ==
  \/ \E id \in PIds, n \in StepEstimates : PCreate(id, n)
  \/ \E id \in PIds, n \in StepOptions : PStart(id, n)
  \/ \E id \in PIds, u \in Updates :
        PUpdate(id, u.step, u.status, u.message)
  \/ \E id \in PIds, u \in PercentUpdates :
        PUpdatePercent(id, u.step, u.message)
  \/ \E id \in PIds, success \in BOOLEAN : PComplete(id, success)
  \/ \E id \in PIds : PFail(id)
  \/ \E id \in PIds : PCancel(id)
  \/ \E id \in PIds : PInterval(id)
  \/ \E id \in PIds : POrphan(id)
  \/ PCleanup
  \/ PTick

ProgressSpec == ProgressInit /\ [][ProgressNext]_vars

\* the contexts getActiveCommands() returns
getActiveCommands(pm) == { pm.ctx[id] : id \in pm.active }

\* how many of the events are of the name
Count(names, name) == Len(SelectSeq(names, LAMBDA n : n = name))

\* the context of the id is in the map and its status is not terminal
Running(id) ==
  /\ id \in tracker.active
  /\ tracker.ctx[id].status \notin TerminalStatuses

\* C23: cancelling a context that is live and not terminal returns true,
\* aborts its controller for the one and only time and emits one 'cancelled'
\* event; a cancel on an id whose context is missing, cancelled or in any
\* other terminal state returns false, aborts nothing and emits nothing
C23_CancelOnceThenRefuses ==
  [][ \A id \in PIds :
        PCancel(id) =>
          ( IF Running(id)
            THEN ( /\ tracker'.call.ret = TRUE
                   /\ tracker'.ctx[id].aborts = 1
                   /\ Count(tracker'.call.emitted, "cancelled") = 1 )
            ELSE ( /\ tracker'.call.ret = FALSE
                   /\ tracker'.call.emitted = <<>>
                   /\ tracker'.ctx = tracker.ctx ) ) ]_vars

\* the part of C23 about ids whose context has left the map
CancelRefusedOnceGone ==
  [][ \A id \in PIds :
        PCancel(id) =>
          ( IF id \in tracker.active
            THEN ( /\ tracker'.call.ret = TRUE
                   /\ tracker'.ctx[id].aborts = 1
                   /\ Count(tracker'.call.emitted, "cancelled") = 1 )
            ELSE ( /\ tracker'.call.ret = FALSE
                   /\ tracker'.call.emitted = <<>>
                   /\ tracker'.ctx = tracker.ctx ) ) ]_vars

\* C24: the current step of a context never exceeds its total of steps
C24_StepNeverExceedsTotal ==
  \A id \in PIds : tracker.ctx[id].currentStep <= tracker.ctx[id].totalSteps

\* an update asked for step 3 of a context of two steps, which shows step 2
C24_Witness ==
  \E id \in tracker.active :
    /\ tracker.call.id = id
    /\ tracker.call.emitted = << "progress" >>
    /\ tracker.ctx[id].totalSteps = 2
    /\ tracker.ctx[id].currentStep = 2
    /\ tracker.ctx[id].status = "executing"
    /\ tracker.ctx[id].message = "working"

\* C25: an update on an id that is not in the map, or whose context is in a
\* terminal status, emits nothing and changes no context
C25_UpdateOfTerminalIsNoOp ==
  [][ \A id \in PIds :
        ( /\ ~Running(id)
          /\ \/ \E u \in Updates : PUpdate(id, u.step, u.status, u.message)
             \/ \E u \in PercentUpdates : PUpdatePercent(id, u.step, u.message) )
        => ( /\ tracker'.call.emitted = <<>>
             /\ tracker'.ctx = tracker.ctx
             /\ tracker'.active = tracker.active ) ]_vars

\* the part of C25 about ids whose context has left the map
UpdateOfGoneIsNoOp ==
  [][ \A id \in PIds :
        ( /\ id \notin tracker.active
          /\ \/ \E u \in Updates : PUpdate(id, u.step, u.status, u.message)
             \/ \E u \in PercentUpdates : PUpdatePercent(id, u.step, u.message) )
        => ( /\ tracker'.call.emitted = <<>>
             /\ tracker'.ctx = tracker.ctx
             /\ tracker'.active = tracker.active ) ]_vars

\* completeProgress or failProgress of a context in the map leaves a terminal
\* status, emits one 'progress' event and after it one 'complete' event, and
\* takes the context out of the map
EndsWithProgressThenComplete ==
  [][ \A id \in tracker.active :
        ( \/ \E success \in BOOLEAN : PComplete(id, success)
          \/ PFail(id) )
        => ( /\ tracker'.ctx[id].status \in { "completed", "failed" }
             /\ Count(tracker'.call.emitted, "progress") = 1
             /\ Count(tracker'.call.emitted, "complete") = 1
             /\ Head(tracker'.call.emitted) = "progress"
             /\ tracker'.call.emitted[Len(tracker'.call.emitted)] = "complete"
             /\ id \notin tracker'.active ) ]_vars

\* a context emits at most one terminal event, one that left the map emitted
\* exactly one, and nothing is emitted for it afterwards
OneTerminalEvent ==
  \A id \in PIds :
    /\ tracker.ended[id] <= 1
    /\ ~tracker.late[id]
    /\ (id \notin tracker.active /\ tracker.ctx[id].status # "none")
         => tracker.ended[id] = 1
    /\ id \in tracker.active => tracker.ended[id] = 0

\* getActiveCommands() returns no context in a terminal status
LiveSetHasNoTerminal ==
  \A context \in getActiveCommands(tracker) :
    context.status \notin TerminalStatuses

\* C26: complete and fail set the terminal status, emit a last 'progress'
\* event and then a 'complete' event and remove the context; a context has
\* exactly one terminal event, after which nothing is emitted for its id; and
\* the live set never holds a context in a terminal status
C26_OneTerminalEventAndLiveSetClean ==
  /\ EndsWithProgressThenComplete
  /\ []OneTerminalEvent
  /\ []LiveSetHasNoTerminal

\* C27: a heartbeat is emitted only for a context in the map, in no terminal
\* status, started more than 5 seconds ago; the interval of such a context
\* emits one whatever its status; and a context that left the map has no
\* interval
C27_HeartbeatOnlyWhileRunning ==
  /\ [][ \A id \in PIds :
            ( /\ tracker'.call.id = id
              /\ Count(tracker'.call.emitted, "heartbeat") > 0 )
            => ( /\ Running(id)
                 /\ now - tracker.ctx[id].startTime > HeartbeatAfter ) ]_vars
  /\ [][ \A id \in PIds :
            ( /\ PInterval(id)
              /\ Running(id)
              /\ now - tracker.ctx[id].startTime > HeartbeatAfter )
            => tracker'.call.emitted = << "heartbeat" >> ]_vars
  /\ [](\A id \in PIds : id \notin tracker.active => ~tracker.ctx[id].intervalId)

\* a heartbeat came out for a context still initializing
C27_Witness ==
  \E id \in tracker.active :
    /\ tracker.call = PCall(id, FALSE, << "heartbeat" >>)
    /\ tracker.ctx[id].status = "initializing"
    /\ tracker.ctx[id].intervalId

\* C30: after cleanup() the map is empty and no interval the manager created
\* is scheduled
C30_NoTimerAfterCleanup ==
  [][ PCleanup =>
        ( /\ tracker'.active = {}
          /\ \A id \in PIds : ~tracker'.ctx[id].intervalId
          /\ \A id \in PIds : tracker'.orphans[id] = 0 ) ]_vars

\* the part of C30 about the contexts of the map and their own intervals
CleanupCancelsEveryContext ==
  [][ PCleanup =>
        ( /\ tracker'.active = {}
          /\ \A id \in PIds : ~tracker'.ctx[id].intervalId
          /\ \A id \in tracker.active :
               /\ tracker'.ctx[id].cancelled
               /\ tracker'.ctx[id].aborts = 1 ) ]_vars

\* ---------------------------------------------------------------------------
\* PerformanceMonitor driven directly (performance-monitor.js)

MaxEnds == 5                 \* measurements ended in one run
MaxOpen == 2                 \* measurements started and not yet ended
HistorySizeOptions == { 0, 2, 4 }   \* options.maxHistorySize
DefaultHistorySize == 100
LightThreshold == 3000       \* ms
HeavyThreshold == 30000      \* ms
MemoryDeltaThreshold == 256  \* MB
MemoryHighDelta == 300       \* MB
RecentExecutions == 10
MemoryWarningLimit == 3
ReliabilityTarget == 95      \* per cent

\* what a measurement can end with: elapsed ms, result.success, growth of rss
\* in MB
Outcome(executionTime, success, memoryDelta) ==
  [ executionTime |-> executionTime, success |-> success,
    memoryDelta |-> memoryDelta ]

Outcomes ==
  { Outcome(3000, TRUE, 0), Outcome(3001, TRUE, 257),
    Outcome(3000, FALSE, 300), Outcome(3001, FALSE, 0) }

\* new PerformanceMonitor({ maxHistorySize }); started and ended number the
\* measurements, open holds the contexts handed out, log lists the ids of
\* the measurements ended since the history was last cleared, newest first
NewMonitor(maxHistorySize) ==
  [ maxHistorySize |->
      IF maxHistorySize = 0 THEN DefaultHistorySize ELSE maxHistorySize,
    performanceHistory |-> <<>>,
    started |-> 0,
    open |-> {},
    log |-> <<>>,
    call |-> [ op |-> "new", threw |-> FALSE, types |-> {} ] ]

\* startMeasurement(commandName)
startMeasurement(pm) ==
  [ pm EXCEPT !.started = @ + 1,
              !.open = @ \cup { pm.started + 1 },
              !.call = [ op |-> "start", threw |-> FALSE, types |-> {} ] ]

\* _generateWarnings(executionTime, endMemoryUsage, startMemoryUsage)
generateWarnings(executionTime, memoryDelta) ==
  ( IF executionTime > LightThreshold
    THEN << [ type |-> "slow_execution",
              severity |-> IF executionTime > HeavyThreshold
                           THEN "high" ELSE "medium" ] >>
    ELSE <<>> )
  \o
  ( IF memoryDelta > MemoryDeltaThreshold
    THEN << [ type |-> "memory",
              severity |-> IF memoryDelta >= MemoryHighDelta
                           THEN "high" ELSE "medium" ] >>
    ELSE <<>> )

\* _recordMetrics adding at the end and keeping the front of the list
recordMetrics_KeepOldest(pm, metrics) ==
  LET h == Append(pm.performanceHistory, metrics)
  IN [ pm EXCEPT !.performanceHistory =
         IF Len(h) > pm.maxHistorySize THEN SubSeq(h, 1, pm.maxHistorySize)
         ELSE h ]

\* _recordMetrics(metrics)
recordMetrics(pm, metrics) ==
  LET h == << metrics >> \o pm.performanceHistory
  IN [ pm EXCEPT !.performanceHistory =
         IF Len(h) > pm.maxHistorySize THEN SubSeq(h, 1, pm.maxHistorySize)
         ELSE h ]

\* endMeasurement(context, result)
endMeasurement(pm, id, o) ==
  LET metrics == [ id |-> id,
                   executionTime |-> o.executionTime,
                   success |-> o.success,
                   warning |-> generateWarnings(o.executionTime, o.memoryDelta) ]
      pm1 == [ pm EXCEPT !.open = @ \ {id},
                         !.log = << id >> \o @,
                         !.call = [ op |-> "end", threw |-> FALSE, types |-> {} ] ]
  IN recordMetrics(pm1, metrics)

RECURSIVE SumTimes(_)
\* executionTimes.reduce((a, b) => a + b, 0)
SumTimes(h) ==
  IF h = <<>> THEN 0 ELSE Head(h).executionTime + SumTimes(Tail(h))

RECURSIVE FlatWarnings(_)
\* flatMap(e => e.warning || [])
FlatWarnings(h) ==
  IF h = <<>> THEN <<>> ELSE Head(h).warning \o FlatWarnings(Tail(h))

\* Math.round(a / b) for a >= 0 and b > 0
RoundDiv(a, b) == (2 * a + b) \div (2 * b)

\* getStatistics(); successRate is in hundredths of a per cent, as toFixed(2)
\* leaves it; the object returned for an empty history has no recentWarnings
getStatistics(pm) ==
  LET executions == pm.performanceHistory
      successCount == Len(SelectSeq(executions, LAMBDA e : e.success))
  IN IF Len(executions) = 0
     THEN [ totalExecutions |-> 0, averageExecutionTime |-> 0,
            successRate |-> 0 ]
     ELSE [ totalExecutions |-> Len(executions),
            averageExecutionTime |->
              RoundDiv(SumTimes(executions), Len(executions)),
            successRate |-> RoundDiv(successCount * 10000, Len(executions)),
            recentWarnings |->
              SelectSeq(
                FlatWarnings(SubSeq(executions, 1,
                                    Min(RecentExecutions, Len(executions)))),
                LAMBDA w : w.severity = "high" \/ w.type = "memory") ]

\* the recommendations pushed before the memory warnings are read
EarlyTypes(stats) ==
  ( IF stats.averageExecutionTime > LightThreshold
    THEN { "performance" } ELSE {} )
  \cup
  ( IF stats.successRate < ReliabilityTarget * 100
    THEN { "reliability" } ELSE {} )

\* getOptimizationRecommendations(): the types of the recommendations
\* returned, or the TypeError of reading filter of undefined
getOptimizationRecommendations(pm) ==
  LET stats == getStatistics(pm)
  IN IF "recentWarnings" \notin DOMAIN stats
     THEN [ op |-> "recommend", threw |-> TRUE, types |-> {} ]
     ELSE LET memoryWarnings ==
                SelectSeq(stats.recentWarnings, LAMBDA w : w.type = "memory")
          IN [ op |-> "recommend", threw |-> FALSE,
               types |-> EarlyTypes(stats) \cup
                         ( IF Len(memoryWarnings) > MemoryWarningLimit
                           THEN { "memory" } ELSE {} ) ]

\* clearHistory()
clearHistory(pm) ==
  [ pm EXCEPT !.performanceHistory = <<>>,
              !.log = <<>>,
              !.call = [ op |-> "clear", threw |-> FALSE, types |-> {} ] ]

\* everything but the PerformanceMonitor
monitorFrame == << now, cache, bridgeVars, parserVars, cacheUserVars, tracker >>

MonitorInit ==
  /\ IdleBridge
  /\ handler = Unused /\ reply = Unused /\ stream = Unused
  /\ lastOp = Unused /\ keyCase = Unused
  /\ tracker = Unused
  /\ \E size \in HistorySizeOptions : monitor = NewMonitor(size)

MStart ==
  /\ monitor.started < MaxEnds
  /\ Cardinality(monitor.open) < MaxOpen
  /\ monitor' = startMeasurement(monitor)
  /\ UNCHANGED monitorFrame

MEnd(id, o) ==
  /\ id \in monitor.open
  /\ monitor' = endMeasurement(monitor, id, o)
  /\ UNCHANGED monitorFrame

MStatistics ==
  /\ monitor' = [ monitor EXCEPT
                    !.call = [ op |-> "statistics", threw |-> FALSE,
                               types |-> {} ] ]
  /\ UNCHANGED monitorFrame

MRecommend ==
  /\ monitor' = [ monitor EXCEPT
                    !.call = getOptimizationRecommendations(monitor) ]
  /\ UNCHANGED monitorFrame

MClear ==
  /\ monitor' = clearHistory(monitor)
  /\ UNCHANGED monitorFrame

MonitorNext ==
  \/ MStart
  \/ \E id \in 1..MaxEnds, o \in Outcomes : MEnd(id, o)
  \/ MStatistics
  \/ MRecommend
  \/ MClear

MonitorSpec == MonitorInit /\ [][MonitorNext]_vars

\* the ids of the entries of a history, in order
EntryIds(h) == [ k \in DOMAIN h |-> h[k].id ]

\* C28: the history holds at most maxHistorySize entries, and they are the
\* measurements that ended last, newest first
C28_HistoryKeepsMostRecent ==
  /\ Len(monitor.performanceHistory) <= monitor.maxHistorySize
  /\ EntryIds(monitor.performanceHistory) =
       SubSeq(monitor.log, 1, Min(Len(monitor.log), monitor.maxHistorySize))

\* more measurements ended than the history holds, two of them in another
\* order than they started
C28_Witness ==
  /\ Len(monitor.log) > monitor.maxHistorySize
  /\ Len(monitor.performanceHistory) = monitor.maxHistorySize
  /\ monitor.call.op = "end"
  /\ \E k \in 1..(Len(monitor.performanceHistory) - 1) :
       monitor.performanceHistory[k].id < monitor.performanceHistory[k + 1].id

\* C29: getOptimizationRecommendations() does not throw; it recommends
\* caching exactly when the average execution time of the history exceeds the
\* light threshold, reliability work exactly when fewer than 95 per cent of
\* the executions succeeded, and memory work exactly when the warnings of the
\* ten latest executions hold more than three memory warnings
C29_RecommendationsMatchHistory ==
  [][ MRecommend =>
        LET h == monitor.performanceHistory
            recent == FlatWarnings(SubSeq(h, 1, Min(RecentExecutions, Len(h))))
        IN ( /\ ~monitor'.call.threw
             /\ ("performance" \in monitor'.call.types)
                  <=> (Len(h) > 0 /\ SumTimes(h) > LightThreshold * Len(h))
             /\ ("reliability" \in monitor'.call.types)
                  <=> (100 * Len(SelectSeq(h, LAMBDA e : e.success))
                         < ReliabilityTarget * Len(h))
             /\ ("memory" \in monitor'.call.types)
                  <=> (Len(SelectSeq(recent, LAMBDA w : w.type = "memory"))
                         > MemoryWarningLimit) ) ]_vars

\* the part of C29 about a history that is not empty, the average being the
\* rounded one of getStatistics()
RecommendationsOfNonEmptyHistory ==
  [][ (MRecommend /\ monitor.performanceHistory # <<>>) =>
        LET h == monitor.performanceHistory
            recent == FlatWarnings(SubSeq(h, 1, Min(RecentExecutions, Len(h))))
        IN ( /\ ~monitor'.call.threw
             /\ ("performance" \in monitor'.call.types)
                  <=> (RoundDiv(SumTimes(h), Len(h)) > LightThreshold)
             /\ ("reliability" \in monitor'.call.types)
                  <=> (100 * Len(SelectSeq(h, LAMBDA e : e.success))
                         < ReliabilityTarget * Len(h))
             /\ ("memory" \in monitor'.call.types)
                  <=> (Len(SelectSeq(recent, LAMBDA w : w.type = "memory"))
                         > MemoryWarningLimit) ) ]_vars

\* C31: no interval of a ProgressManager that is still scheduled keeps the
\* process alive, the interval being unref'ed as the sweep timer of the
\* cache is
C31_TimersAreUnreferenced ==
  \A id \in PIds : tracker.ctx[id].intervalId => ~tracker.ctx[id].refed

\* update objects with steps below 0 and above the total
StepUpdates ==
  { Update(<< 0 - 1 >>, "", ""), Update(<< 0 >>, "", ""), Update(<< 1 >>, "", ""),
    Update(<< 2 >>, "executing", ""), Update(<< 3 >>, "", ""),
    Update(<< 0 - 5 >>, "", "working") }

\* percentages below 0, within range and above 100
StepPercentages == { 0 - 10, 0, 33, 50, 100, 150 }

\* one command id driven through every operation, with the wider updates
PercentNext ==
  \/ \E n \in StepEstimates : PCreate(1, n)
  \/ \E n \in StepOptions : PStart(1, n)
  \/ \E u \in StepUpdates : PUpdate(1, u.step, u.status, u.message)
  \/ \E percentage \in StepPercentages : PUpdatePercent(1, percentage, "")
  \/ \E success \in BOOLEAN : PComplete(1, success)
  \/ PFail(1)
  \/ PCancel(1)
  \/ PInterval(1)
  \/ POrphan(1)
  \/ PCleanup
  \/ PTick

PercentSpec == ProgressInit /\ [][PercentNext]_vars

\* C38: every 'progress' event carries a progress value within 0..100
C38_ProgressWithinPercentRange ==
  \A k \in DOMAIN tracker.call.progress :
    /\ tracker.call.progress[k] >= 0
    /\ tracker.call.progress[k] <= 100

\* the part of C38 about the upper end of the range
ProgressAtMostHundred ==
  \A k \in DOMAIN tracker.call.progress : tracker.call.progress[k] <= 100

\* C36: a parseBuffer call on a handler with no fragment pending, whose data
\* is complete newline-terminated lines each within the per-message limit,
\* raises no buffer-size error and returns all its messages, also when the
\* data is longer than maxBufferSize
C36_BufferLimitBoundsOnlyUnflushed ==
  ( /\ stream.stage # "start"
    /\ \A k \in DOMAIN stream.lines : Len(stream.lines[k]) <= LineLimit )
  => ( /\ stream.whole.error = "none"
       /\ stream.whole.messages = ExpectedMessages(stream.lines) )

\* ---------------------------------------------------------------------------
\* JSONProtocolHandler: commands pending on responses (json-protocol.js)

MaxCommands == 2     \* executeCommand calls in one run
MaxMessages == 2     \* messages one handleIncomingData call parses
UnknownId == 9       \* a response id no command was issued with

CommandIds == 1..MaxCommands

\* the commands of the mock paths and one that spawns the CLI
ProtocolCommands ==
  { "/sc:help", "/sc:invalid-command", "/sc:long-running-command",
    "/sc:async-command", "/sc:analyze" }

\* the messages parseBuffer hands to the loop of handleIncomingData; id 0 is
\* a message without id
Message(type, id) == [ type |-> type, id |-> id ]

Messages ==
  { Message("command_response", id) : id \in CommandIds \cup { 0, UnknownId } }
  \cup { Message("progress", 1) }

MessageLists == UNION { [ 1..n -> Messages ] : n \in 1..MaxMessages }

\* a promise nobody created, and one executeCommand returned
NoPromise == [ state |-> "none", value |-> "", by |-> 0 ]
PendingPromise == [ state |-> "pending", value |-> "", by |-> 0 ]

\* new JSONProtocolHandler(): the ids of activeCommands in insertion order,
\* the timeouts scheduled, the children spawned and the promises returned
NewProtocol ==
  [ commandId |-> 0,
    activeCommands |-> <<>>,
    timers |-> {},
    child |-> [ id \in CommandIds |-> "none" ],
    promise |-> [ id \in CommandIds |-> NoPromise ] ]

\* resolve(...) and reject(...) of a promise: the first call settles it, the
\* later ones do nothing; by is the id of the response that resolved it
Settle(h, id, state, value, by) ==
  IF h.promise[id].state # "pending" THEN h
  ELSE [ h EXCEPT !.promise[id] = [ state |-> state, value |-> value, by |-> by ] ]

\* this.activeCommands.delete(id)
DeleteCommand(h, id) ==
  [ h EXCEPT !.activeCommands = SelectSeq(@, LAMBDA c : c # id) ]

\* clearTimeout(timeout); this.activeCommands.delete(commandId)
ClearAndDelete(h, id) ==
  DeleteCommand([ h EXCEPT !.timers = @ \ {id} ], id)

\* executeCommand(command)
executeCommand(h, command) ==
  LET id == h.commandId + 1
      h1 == [ h EXCEPT !.commandId = id,
                       !.timers = @ \cup {id},
                       !.activeCommands = Append(@, id),
                       !.promise[id] = PendingPromise ]
  IN CASE command = "/sc:help" ->
            Settle(ClearAndDelete(h1, id), id, "resolved", "success", 0)
       [] command = "/sc:invalid-command" ->
            Settle(ClearAndDelete(h1, id), id, "rejected", "Invalid command", 0)
       [] command \in { "/sc:long-running-command", "/sc:async-command" } -> h1
       [] OTHER -> [ h1 EXCEPT !.child[id] = "running" ]

\* entry?.child?.kill()
Kill(h, id) ==
  [ h EXCEPT !.child[id] = IF @ = "running" THEN "killed" ELSE @ ]

\* the callback of the setTimeout of executeCommand
TimeoutFires(h, id) ==
  Settle(DeleteCommand([ Kill(h, id) EXCEPT !.timers = @ \ {id} ], id),
         id, "rejected", "Command execution timed out", 0)

\* child.on('close', code)
ChildClose(h, id, code) ==
  LET h1 == ClearAndDelete([ h EXCEPT !.child[id] = "gone" ], id)
  IN IF code = 0 THEN Settle(h1, id, "resolved", "success", 0)
     ELSE Settle(h1, id, "rejected", "Command failed", 0)

\* child.on('error', error)
ChildError(h, id) ==
  Settle(ClearAndDelete([ h EXCEPT !.child[id] = "gone" ], id),
         id, "rejected", "Process execution failed", 0)

\* one message of the loop of handleIncomingData
HandleMessage(h, message) ==
  IF message.type = "command_response" /\ message.id # 0
  THEN IF \E k \in DOMAIN h.activeCommands : h.activeCommands[k] = message.id
       THEN Settle(ClearAndDelete(h, message.id), message.id,
                   "resolved", "success", message.id)
       ELSE IF h.activeCommands # <<>>
       THEN LET cid == Head(h.activeCommands)
            IN Settle(ClearAndDelete(h, cid), cid, "resolved", "success",
                      message.id)
       ELSE h
  ELSE h

RECURSIVE handleIncomingData(_, _)
\* handleIncomingData(data), data parsing into the messages
handleIncomingData(h, messages) ==
  IF messages = <<>> THEN h
  ELSE handleIncomingData(HandleMessage(h, Head(messages)), Tail(messages))

RECURSIVE RejectAll(_, _)
\* the loop of close() over activeCommands
RejectAll(h, ids) ==
  IF ids = <<>> THEN h
  ELSE RejectAll(
         Settle([ Kill(h, Head(ids)) EXCEPT !.timers = @ \ { Head(ids) } ],
                Head(ids), "rejected", "Protocol handler closed", 0),
         Tail(ids))

\* close()
close(h) ==
  [ RejectAll(h, h.activeCommands) EXCEPT !.activeCommands = <<>> ]

\* what the last call was and what it was given
ProtocolCall(op, id, messages) ==
  [ op |-> op, id |-> id, messages |-> messages ]

ProtocolInit ==
  /\ IdleBridge
  /\ handler = NewProtocol
  /\ reply = ProtocolCall("new", 0, <<>>)
  /\ stream = Unused /\ lastOp = Unused /\ keyCase = Unused
  /\ tracker = Unused /\ monitor = Unused

protocolFrame == << now, cache, bridgeVars, stream, cacheUserVars, directVars >>

JExecute(command) ==
  /\ handler.commandId < MaxCommands
  /\ handler' = executeCommand(handler, command)
  /\ reply' = ProtocolCall("execute", handler.commandId + 1, <<>>)
  /\ UNCHANGED protocolFrame

JTimeout(id) ==
  /\ id \in handler.timers
  /\ handler' = TimeoutFires(handler, id)
  /\ reply' = ProtocolCall("timeout", id, <<>>)
  /\ UNCHANGED protocolFrame

JChildClose(id, code) ==
  /\ handler.child[id] \in { "running", "killed" }
  /\ handler' = ChildClose(handler, id, code)
  /\ reply' = ProtocolCall("childClose", id, <<>>)
  /\ UNCHANGED protocolFrame

JChildError(id) ==
  /\ handler.child[id] = "running"
  /\ handler' = ChildError(handler, id)
  /\ reply' = ProtocolCall("childError", id, <<>>)
  /\ UNCHANGED protocolFrame

JIncoming(messages) ==
  /\ handler' = handleIncomingData(handler, messages)
  /\ reply' = ProtocolCall("incoming", 0, messages)
  /\ UNCHANGED protocolFrame

JClose ==
  /\ handler' = close(handler)
  /\ reply' = ProtocolCall("close", 0, <<>>)
  /\ UNCHANGED protocolFrame

ProtocolNext ==
  \/ \E command \in ProtocolCommands : JExecute(command)
  \/ \E id \in CommandIds : JTimeout(id)
  \/ \E id \in CommandIds, code \in { 0, 1 } : JChildClose(id, code)
  \/ \E id \in CommandIds : JChildError(id)
  \/ \E messages \in MessageLists : JIncoming(messages)
  \/ JClose

ProtocolSpec == ProtocolInit /\ [][ProtocolNext]_vars

\* the ids in activeCommands
ActiveIds(h) == { h.activeCommands[k] : k \in DOMAIN h.activeCommands }

\* a command is in activeCommands, with its timeout scheduled, exactly while
\* its promise is pending
PendingExactlyWhileActive ==
  \A id \in CommandIds :
    /\ handler.promise[id].state = "pending" <=> id \in ActiveIds(handler)
    /\ handler.promise[id].state = "pending" <=> id \in handler.timers

\* a timeout rejects its pending command with the timeout error, and close()
\* rejects every pending command, empties activeCommands and leaves no timeout
TimeoutAndCloseReject ==
  [][ /\ ( reply'.op = "timeout"
           /\ handler.promise[reply'.id].state = "pending" )
         => handler'.promise[reply'.id] =
              [ state |-> "rejected", value |-> "Command execution timed out",
                by |-> 0 ]
      /\ reply'.op = "close"
         => ( /\ handler'.activeCommands = <<>>
              /\ handler'.timers = {}
              /\ \A id \in CommandIds :
                   IF handler.promise[id].state = "pending"
                   THEN handler'.promise[id] =
                          [ state |-> "rejected",
                            value |-> "Protocol handler closed", by |-> 0 ]
                   ELSE handler'.promise[id] = handler.promise[id] ) ]_vars

\* a response whose id is that of a command already rejected by its timeout
\* or by close() changes nothing
LateResponseHasNoEffect ==
  [][ ( /\ reply'.op = "incoming"
        /\ Len(reply'.messages) = 1
        /\ reply'.messages[1].type = "command_response"
        /\ reply'.messages[1].id \in CommandIds
        /\ handler.promise[reply'.messages[1].id].state = "rejected"
        /\ handler.promise[reply'.messages[1].id].value \in
             { "Command execution timed out", "Protocol handler closed" } )
      => handler' = handler ]_vars

\* C32: a pending command is settled once, by its response, by its timeout
\* or by close(), and leaves activeCommands when it settles; a response that
\* arrives after the timeout or after close() has no effect; after close()
\* activeCommands is empty and no timeout remains
C32_PendingSettledOnceAndLateResponseIgnored ==
  /\ []PendingExactlyWhileActive
  /\ TimeoutAndCloseReject
  /\ LateResponseHasNoEffect

\* a promise resolved by a response was resolved by the response carrying
\* the id of its command
ResolvedByOwnResponse ==
  \A id \in CommandIds :
    handler.promise[id].by # 0 => handler.promise[id].by = id

\* a handleIncomingData call resolves no more commands than it has
\* command_response messages with an id
AtMostOnePerResponse ==
  [][ reply'.op = "incoming" =>
        Cardinality({ id \in CommandIds :
                        /\ handler.promise[id].state = "pending"
                        /\ handler'.promise[id].state # "pending" })
          <= Len(SelectSeq(reply'.messages,
                           LAMBDA m : m.type = "command_response" /\ m.id # 0))
    ]_vars

\* C37: each command_response resolves at most one pending command, and a
\* response with an id resolves only the command issued with that id
C37_ResponseResolvesOnlyItsCommand ==
  /\ []ResolvedByOwnResponse
  /\ AtMostOnePerResponse

\* ------------------------------------- OptimizedCommandBridge, further claims
\* the cache holds an entry for the pair that has not expired at time t
ValidEntry(c, t, commandName, args) ==
  /\ CacheHas(c, GenerateKey(commandName, args))
  /\ t <= c[CacheIndex(c, GenerateKey(commandName, args))].expiresAt

\* the step in which a caller invokes executeCommand with skipCache and
\* well-formed arguments while a valid entry for them is in the cache
SkipCacheCallStep(i) ==
  /\ inv[i].pc = "idle" /\ inv'[i].pc # "idle"
  /\ inv'[i].skipCache
  /\ validateParameters(inv'[i].commandName, inv'[i].args) = "ok"
  /\ ValidEntry(cache, now, inv'[i].commandName, inv'[i].args)

\* a skipCache call reads nothing from the cache: every entry, with its
\* hitCount and lastAccessed, is as it was, and the call is dispatched
SkipCacheCallBypassesCache ==
  [][ \A i \in Ids :
        SkipCacheCallStep(i)
        => ( /\ cache' = cache
             /\ inv'[i].dispatched = 1
             /\ ~inv'[i].cached ) ]_vars

\* a skipCache invocation whose primitive succeeded returns the live result
SkipCacheReturnsLiveResult ==
  \A i \in Ids :
    (Done(i) /\ inv[i].skipCache /\ inv[i].prim = "ok")
    => (inv[i].outcome = "resolved" /\ inv[i].success /\ ~inv[i].cached)

\* C33: with skipCache the cache is not consulted: even when a valid entry
\* exists for the command and arguments, the invocation is dispatched to the
\* primitive and returns the live result with cached=false, and the entry's
\* hitCount and lastAccessed stay as they were.
C33_SkipCacheNeverConsultsCache ==
  /\ SkipCacheCallBypassesCache
  /\ []SkipCacheReturnsLiveResult

\* C34: a successful invocation of a cacheable command stores its result
\* also when it was made with skipCache: an identical invocation without
\* skipCache that follows it is served from the cache with that result.
C34_SkipCacheResultIsStored ==
  \A i, j \in Ids :
    ( /\ i < j /\ Done(i) /\ Done(j) /\ i \in inv[j].calledAfter
      /\ inv[i].commandName = inv[j].commandName /\ inv[i].args = inv[j].args
      /\ CacheableCommand(inv[i].commandName) /\ ValidCall(i)
      /\ inv[i].skipCache /\ ~inv[j].skipCache
      /\ inv[i].prim = "ok"
      /\ \A k \in Ids \ {i, j} : inv[k].pc = "idle"
      /\ NoExpirySoFar )
    => ( /\ inv[j].cached /\ inv[j].dispatched = 0
         /\ \E k \in DOMAIN cache :
              /\ cache[k].key = GenerateKey(inv[i].commandName, inv[i].args)
              /\ cache[k].result.by = i )

\* a successful skipCache invocation of a cacheable command has settled
SkipCacheSucceeded ==
  \E i \in Ids :
    /\ Done(i) /\ inv[i].skipCache /\ inv[i].prim = "ok"
    /\ CacheableCommand(inv[i].commandName)

\* a successful skipCache invocation leaves no entry of its own in the cache
SkipCacheStoresNothing ==
  \A i \in Ids :
    inv[i].skipCache => \A k \in DOMAIN cache : cache[k].result.by # i

\* the success flag of the 'complete' event of invocation i: completeProgress
\* sets context.status from the same test, result.success !== false
CompleteEventSuccess(i) == ctx[i].status = "completed"

\* the cache holds an entry written by invocation i
StoredBy(i) == \E k \in DOMAIN cache : cache[k].result.by = i

\* C35: for every invocation that was not served from the cache, the success
\* flag of the tracker's completion event equals the success flag the
\* monitor recorded for it, and the cache holds an entry written by it only
\* if both record success, whether the primitive resolved with success,
\* resolved with success=false, rejected or was cancelled.
C35_CacheTrackerMonitorConsistent ==
  \A i \in Ids :
    (Done(i) /\ ~inv[i].cached)
    => ( /\ Cardinality(HistoryOf(i)) = 1
         /\ events[i].complete <= 1
         /\ events[i].complete = 1
            => \A k \in HistoryOf(i) :
                 performanceHistory[k].success = CompleteEventSuccess(i)
         /\ StoredBy(i)
            => ( /\ events[i].complete = 1 /\ CompleteEventSuccess(i)
                 /\ \A k \in HistoryOf(i) : performanceHistory[k].success ) )

\* one invocation stored its successful result, and another, whose primitive
\* resolved with success=false, rejected or was aborted, has settled
C35_Witness ==
  \E i, j \in Ids :
    /\ Done(i) /\ inv[i].prim = "ok" /\ StoredBy(i)
    /\ events[i].complete = 1 /\ CompleteEventSuccess(i)
    /\ Done(j) /\ inv[j].prim \in { "fail", "error", "aborted" }
    /\ ~StoredBy(j)

\* invocation i ended by cancellation: its in-flight call was aborted, by
\* cancelCommand or by the external signal
EndedByCancellation(i) == Done(i) /\ inv[i].prim = "aborted"

\* invocation i ended by success or by a failure that is no cancellation
EndedOtherwise(i) ==
  Done(i) /\ ~inv[i].cached /\ inv[i].prim # "aborted" /\ ~ctx[i].cancelled

\* an invocation cancelled through cancelCommand emits one 'cancelled' event
\* and no 'complete' event
CancelCommandEmitsOneCancelled ==
  \A i \in Ids :
    (Done(i) /\ ctx[i].cancelled)
    => (events[i].cancelled = 1 /\ events[i].complete = 0)

\* an invocation that ended without a cancellation emits one 'complete'
\* event and no 'cancelled' event
OtherEndEmitsOneComplete ==
  \A i \in Ids :
    EndedOtherwise(i)
    => (events[i].complete = 1 /\ events[i].cancelled = 0)

\* C39: an invocation that ends by cancellation, through cancelCommand or
\* through the abort of the external signal, emits exactly one
\* commandCancelled and no commandComplete; an invocation that ends by
\* success or by another failure emits exactly one commandComplete and no
\* commandCancelled.
C39_OneTerminalEventPerInvocation ==
  \A i \in Ids :
    /\ EndedByCancellation(i)
       => (events[i].cancelled = 1 /\ events[i].complete = 0)
    /\ EndedOtherwise(i)
       => (events[i].complete = 1 /\ events[i].cancelled = 0)

\* a cancellation of invocation i that comes after i has settled
LateCancellation(i) ==
  Done(i) /\ (CancelCommand(i) \/ ExternalAbort(i))

\* what a late cancellation leaves alone whatever its source
LateCancellationFrame(i) ==
  /\ ~CancelReturns(World, i)
  /\ events' = events
  /\ cache' = cache
  /\ activeCommands' = activeCommands
  /\ performanceHistory' = performanceHistory
  /\ \A j \in Ids \ {i} : inv'[j] = inv[j] /\ ctx'[j] = ctx[j]

\* a late cancellation emits nothing and changes neither the cache, the
\* live set, the history nor another invocation
LateCancellationIsContained ==
  [][ \A i \in Ids : LateCancellation(i) => LateCancellationFrame(i) ]_vars

\* C40: a cancellation that comes after the invocation has settled has no
\* effect: cancelCommand returns false, the abort of the external signal
\* triggers no controller and emits no event, and neither changes the cache,
\* the live set of the tracker, the history of the monitor or any other
\* invocation.
C40_LateCancellationHasNoEffect ==
  [][ \A i \in Ids :
        LateCancellation(i)
        => ( /\ LateCancellationFrame(i)
             /\ ctx'[i].aborted = ctx[i].aborted ) ]_vars

\* an external signal was aborted after its invocation had settled, while
\* another invocation was in flight
LateAbortHappened ==
  \E i, j \in Ids :
    /\ Done(i) /\ inv[i].signal = "aborted" /\ ~inv[i].preAborted
    /\ inv[i].prim = "ok"
    /\ inv[j].pc = "awaiting"

====
